---- MODULE Spec2Model ----
(***************************************************************************)
(* Often AI: a metered LLM gateway and multi-currency ledger for agents.   *)
(*                                                                         *)
(* The model covers the proxy (POST /v1/chat/completions with its pre-check,*)
(* secret cache, upstream call and atomic debit) and the bank functions    *)
(* (deposit, transfer, convert, getAccount, getTransactions) over one       *)
(* shared Firestore: the accounts collection and the append-only            *)
(* transactions collection.                                                 *)
(*                                                                         *)
(* JavaScript strings that the code inspects by prefix (the Authorization   *)
(* header, model identifiers) are sequences of one-character strings, so    *)
(* startsWith and substring are computed, not assumed.                      *)
(***************************************************************************)
EXTENDS Integers, Sequences, FiniteSets, TLC

VARIABLES
    accounts,      \* accounts/{uid}: NoDoc, or [balances, ver]
    journal,       \* transactions collection, in commit order
    keyCache,      \* proxy secret cache: secret name -> NoKey or [key, expiry]
    rateCache,     \* bank rate snapshot: [set, rates]
    rateCacheExp,  \* expiry of rateCache in ms
    now,           \* Date.now() in ms
    rq             \* in-flight and finished HTTP requests

vars == <<accounts, journal, keyCache, rateCache, rateCacheExp, now, rq>>

(***************************************************************************)
(* Bounds of the model.                                                    *)
(***************************************************************************)
\* requests of the mixed-ledger specification Spec
MaxReqs == 2
\* concurrent chat completions of SpecRace
NRace == 3
\* chat completions of SpecChat
NChat == 2
\* requests of SpecAuth
NAuth == 2
\* requests of SpecBank
NBank == 2
\* deposit requests of SpecDeposit
NDeposit == 3
NConvert == 2
\* convert requests of SpecCents
NCents == 2
NFraction == 2
NJournal == 2
NFailures == 2
NOracle == 2
NKeys == 2
NCost == 1
NPure == 1
NRoute == 1
NTranslate == 1
NResponse == 1
NTransfers == 3
NOwner == 2
NFunds == 2
NRoundTrip == 1
NSeries == 2
NFrame == 2
NUpstream == 3
MaxMessages == 3

(***************************************************************************)
(* Strings as character sequences.                                         *)
(***************************************************************************)
StartsWith(s, prefix) ==
    /\ Len(s) >= Len(prefix)
    /\ SubSeq(s, 1, Len(prefix)) = prefix

\* JavaScript s.substring(n): the characters from index n (0-based) on
Substring(s, n) == SubSeq(s, n + 1, Len(s))

\* A value that may be undefined (an environment variable, a request header)
\* is a sequence: empty when it is undefined, else holding the one string.
\* So undefined differs from every string, "undefined" and "" included.
NoVal == <<>>
Str(s) == <<s>>

(***************************************************************************)
(* Pricing table (microdollars per 1M tokens) and the cost engine.         *)
(***************************************************************************)
M_gpt_4o == <<"g", "p", "t", "-", "4", "o">>
M_gpt_4o_mini == <<"g", "p", "t", "-", "4", "o", "-", "m", "i", "n", "i">>
M_gpt_4_turbo == <<"g", "p", "t", "-", "4", "-", "t", "u", "r", "b", "o">>
M_gpt_3_5_turbo == <<"g", "p", "t", "-", "3", ".", "5", "-", "t", "u", "r", "b", "o">>
M_o1 == <<"o", "1">>
M_o1_mini == <<"o", "1", "-", "m", "i", "n", "i">>
M_o3_mini == <<"o", "3", "-", "m", "i", "n", "i">>
M_claude_sonnet_4_20250514 == <<"c", "l", "a", "u", "d", "e", "-", "s", "o", "n", "n", "e", "t", "-", "4", "-", "2", "0", "2", "5", "0", "5", "1", "4">>
M_claude_opus_4_20250514 == <<"c", "l", "a", "u", "d", "e", "-", "o", "p", "u", "s", "-", "4", "-", "2", "0", "2", "5", "0", "5", "1", "4">>
M_claude_haiku_4_20250414 == <<"c", "l", "a", "u", "d", "e", "-", "h", "a", "i", "k", "u", "-", "4", "-", "2", "0", "2", "5", "0", "4", "1", "4">>
M_claude_3_5_sonnet_20241022 == <<"c", "l", "a", "u", "d", "e", "-", "3", "-", "5", "-", "s", "o", "n", "n", "e", "t", "-", "2", "0", "2", "4", "1", "0", "2", "2">>
M_claude_3_5_haiku_20241022 == <<"c", "l", "a", "u", "d", "e", "-", "3", "-", "5", "-", "h", "a", "i", "k", "u", "-", "2", "0", "2", "4", "1", "0", "2", "2">>
M_gemini_2_5_pro == <<"g", "e", "m", "i", "n", "i", "-", "2", ".", "5", "-", "p", "r", "o">>
M_gemini_2_5_flash == <<"g", "e", "m", "i", "n", "i", "-", "2", ".", "5", "-", "f", "l", "a", "s", "h">>
M_gemini_2_0_flash == <<"g", "e", "m", "i", "n", "i", "-", "2", ".", "0", "-", "f", "l", "a", "s", "h">>
M_mistral_large_latest == <<"m", "i", "s", "t", "r", "a", "l", "-", "l", "a", "r", "g", "e", "-", "l", "a", "t", "e", "s", "t">>
M_mistral_small_latest == <<"m", "i", "s", "t", "r", "a", "l", "-", "s", "m", "a", "l", "l", "-", "l", "a", "t", "e", "s", "t">>
M_meta_llama_Llama_3_1_70B_Instruct_Turbo == <<"m", "e", "t", "a", "-", "l", "l", "a", "m", "a", "/", "L", "l", "a", "m", "a", "-", "3", ".", "1", "-", "7", "0", "B", "-", "I", "n", "s", "t", "r", "u", "c", "t", "-", "T", "u", "r", "b", "o">>
M_meta_llama_Llama_3_1_8B_Instruct_Turbo == <<"m", "e", "t", "a", "-", "l", "l", "a", "m", "a", "/", "L", "l", "a", "m", "a", "-", "3", ".", "1", "-", "8", "B", "-", "I", "n", "s", "t", "r", "u", "c", "t", "-", "T", "u", "r", "b", "o">>
M_deepseek_ai_DeepSeek_V3 == <<"d", "e", "e", "p", "s", "e", "e", "k", "-", "a", "i", "/", "D", "e", "e", "p", "S", "e", "e", "k", "-", "V", "3">>

PRICING ==
       M_gpt_4o :> [input |-> 2500000, output |-> 10000000]
    @@ M_gpt_4o_mini :> [input |-> 150000, output |-> 600000]
    @@ M_gpt_4_turbo :> [input |-> 10000000, output |-> 30000000]
    @@ M_gpt_3_5_turbo :> [input |-> 500000, output |-> 1500000]
    @@ M_o1 :> [input |-> 15000000, output |-> 60000000]
    @@ M_o1_mini :> [input |-> 3000000, output |-> 12000000]
    @@ M_o3_mini :> [input |-> 1100000, output |-> 4400000]
    @@ M_claude_sonnet_4_20250514 :> [input |-> 3000000, output |-> 15000000]
    @@ M_claude_opus_4_20250514 :> [input |-> 15000000, output |-> 75000000]
    @@ M_claude_haiku_4_20250414 :> [input |-> 800000, output |-> 4000000]
    @@ M_claude_3_5_sonnet_20241022 :> [input |-> 3000000, output |-> 15000000]
    @@ M_claude_3_5_haiku_20241022 :> [input |-> 800000, output |-> 4000000]
    @@ M_gemini_2_5_pro :> [input |-> 1250000, output |-> 10000000]
    @@ M_gemini_2_5_flash :> [input |-> 150000, output |-> 600000]
    @@ M_gemini_2_0_flash :> [input |-> 100000, output |-> 400000]
    @@ M_mistral_large_latest :> [input |-> 2000000, output |-> 6000000]
    @@ M_mistral_small_latest :> [input |-> 200000, output |-> 600000]
    @@ M_meta_llama_Llama_3_1_70B_Instruct_Turbo :> [input |-> 880000, output |-> 880000]
    @@ M_meta_llama_Llama_3_1_8B_Instruct_Turbo :> [input |-> 180000, output |-> 180000]
    @@ M_deepseek_ai_DeepSeek_V3 :> [input |-> 900000, output |-> 900000]

DEFAULT_PRICING == [input |-> 2500000, output |-> 10000000]
MIN_BALANCE_MICROS == 1000

\* Math.ceil(n / d) for an integer n and d > 0
CeilDiv(n, d) == -((-n) \div d)

Abs(n) == IF n < 0 THEN -n ELSE n
Min(a, b) == IF a < b THEN a ELSE b

\* PRICING is an object literal, so PRICING[model] also finds what every
\* object inherits from Object.prototype: a function for "constructor",
\* "toString", "valueOf", "hasOwnProperty", "isPrototypeOf",
\* "propertyIsEnumerable", "toLocaleString" and the four accessors
\* "__defineGetter__", "__defineSetter__", "__lookupGetter__" and
\* "__lookupSetter__", and the prototype object itself for "__proto__".  Each
\* is truthy and has neither an input nor an output.
K_constructor == <<"c", "o", "n", "s", "t", "r", "u", "c", "t", "o", "r">>
K_toString == <<"t", "o", "S", "t", "r", "i", "n", "g">>
K_valueOf == <<"v", "a", "l", "u", "e", "O", "f">>
K___proto__ == <<"_", "_", "p", "r", "o", "t", "o", "_", "_">>
InheritedKeys ==
    {K_constructor, K_toString, K_valueOf, K___proto__,
     <<"h", "a", "s", "O", "w", "n", "P", "r", "o", "p", "e", "r", "t", "y">>,
     <<"i", "s", "P", "r", "o", "t", "o", "t", "y", "p", "e", "O", "f">>,
     <<"p", "r", "o", "p", "e", "r", "t", "y", "I", "s", "E", "n", "u", "m", "e", "r", "a", "b", "l", "e">>,
     <<"t", "o", "L", "o", "c", "a", "l", "e", "S", "t", "r", "i", "n", "g">>,
     <<"_", "_", "d", "e", "f", "i", "n", "e", "G", "e", "t", "t", "e", "r", "_", "_">>,
     <<"_", "_", "d", "e", "f", "i", "n", "e", "S", "e", "t", "t", "e", "r", "_", "_">>,
     <<"_", "_", "l", "o", "o", "k", "u", "p", "G", "e", "t", "t", "e", "r", "_", "_">>,
     <<"_", "_", "l", "o", "o", "k", "u", "p", "S", "e", "t", "t", "e", "r", "_", "_">>}

\* A number that may be NaN is a record: the flag nan and, when the flag is
\* off, the value.  NaN is what arithmetic on undefined gives and Math.ceil
\* keeps; it differs from Num(n) for every n.  A comparison with NaN is false,
\* a difference with NaN is NaN again, and NaN || 0 is 0.
Num(n) == [nan |-> FALSE, value |-> n]
NaN == [nan |-> TRUE, value |-> 0]

\* x - cost for a number x and a cost that may be NaN
Minus(x, cost) == IF cost.nan THEN NaN ELSE Num(x - cost.value)

\* PRICING[model] || DEFAULT_PRICING
PricingRow(model) ==
    IF model \in DOMAIN PRICING THEN PRICING[model]
    ELSE IF model \in InheritedKeys THEN [inherited |-> TRUE]
    ELSE DEFAULT_PRICING

\* ceil((promptTokens * input + completionTokens * output) / 1_000_000).
\* The product is split at 10^6 so that every intermediate value stays in
\* the checker's integer range: x * r = x * (r \div 10^6) * 10^6 + x * (r % 10^6),
\* and the first summand is a multiple of 10^6.
\* A row without rates makes every product, and so the result, NaN.
calculateCostMicros(model, promptTokens, completionTokens) ==
    LET p == PricingRow(model)
    IN  IF "input" \notin DOMAIN p \/ "output" \notin DOMAIN p THEN NaN
        ELSE Num(promptTokens * (p.input \div 1000000)
                   + completionTokens * (p.output \div 1000000)
                   + CeilDiv(promptTokens * (p.input % 1000000)
                               + completionTokens * (p.output % 1000000),
                             1000000))

(***************************************************************************)
(* Provider registry and router.                                           *)
(***************************************************************************)
P_gpt == <<"g", "p", "t", "-">>
P_o1 == <<"o", "1">>
P_o3 == <<"o", "3">>
P_o4 == <<"o", "4">>
P_claude == <<"c", "l", "a", "u", "d", "e", "-">>
P_gemini == <<"g", "e", "m", "i", "n", "i", "-">>
P_mistral == <<"m", "i", "s", "t", "r", "a", "l", "-">>

\* variant: the o4 family is not recognised
detectProviderNoO4(model) ==
    IF \/ StartsWith(model, P_gpt) \/ StartsWith(model, P_o1)
       \/ StartsWith(model, P_o3)
    THEN "openai"
    ELSE IF StartsWith(model, P_claude) THEN "anthropic"
    ELSE IF StartsWith(model, P_gemini) THEN "google"
    ELSE IF StartsWith(model, P_mistral) THEN "mistral"
    ELSE "together"

detectProvider(model) ==
    IF \/ StartsWith(model, P_gpt) \/ StartsWith(model, P_o1)
       \/ StartsWith(model, P_o3) \/ StartsWith(model, P_o4)
    THEN "openai"
    ELSE IF StartsWith(model, P_claude) THEN "anthropic"
    ELSE IF StartsWith(model, P_gemini) THEN "google"
    ELSE IF StartsWith(model, P_mistral) THEN "mistral"
    ELSE "together"

PROVIDERS ==
    [openai    |-> [baseUrl |-> "https://api.openai.com/v1/chat/completions",
                    secret |-> "OPENAI_API_KEY", translate |-> FALSE],
     anthropic |-> [baseUrl |-> "https://api.anthropic.com/v1/messages",
                    secret |-> "ANTHROPIC_API_KEY", translate |-> TRUE],
     google    |-> [baseUrl |-> "https://generativelanguage.googleapis.com/v1beta/openai/chat/completions",
                    secret |-> "GOOGLE_API_KEY", translate |-> FALSE],
     mistral   |-> [baseUrl |-> "https://api.mistral.ai/v1/chat/completions",
                    secret |-> "MISTRAL_API_KEY", translate |-> FALSE],
     together  |-> [baseUrl |-> "https://api.together.xyz/v1/chat/completions",
                    secret |-> "TOGETHER_API_KEY", translate |-> FALSE]]

SecretNames == {PROVIDERS[p].secret : p \in DOMAIN PROVIDERS}

CACHE_TTL == 5 * 60 * 1000

(***************************************************************************)
(* Anthropic response translation.                                         *)
(***************************************************************************)
STOP_REASON_MAP ==
    [end_turn |-> "stop", max_tokens |-> "length",
     stop_sequence |-> "stop", tool_use |-> "tool_calls"]

\* STOP_REASON_MAP is an object literal, so STOP_REASON_MAP[name] also finds
\* the members every object inherits from Object.prototype; each is a
\* function or an object, which is truthy and is not the name looked up.
InheritedNames ==
    {"constructor", "toString", "valueOf", "__proto__", "hasOwnProperty",
     "isPrototypeOf", "propertyIsEnumerable", "toLocaleString",
     "__defineGetter__", "__defineSetter__", "__lookupGetter__",
     "__lookupSetter__"}
InheritedMember == "[Object.prototype member]"

\* STOP_REASON_MAP[data.stop_reason] || data.stop_reason
fromAnthropicResponse(data) ==
    [model |-> data.model,
     finish_reason |-> IF data.stop_reason \in DOMAIN STOP_REASON_MAP
                       THEN STOP_REASON_MAP[data.stop_reason]
                       ELSE IF data.stop_reason \in InheritedNames
                       THEN InheritedMember
                       ELSE data.stop_reason,
     usage |-> [prompt_tokens |-> data.usage.input_tokens,
                completion_tokens |-> data.usage.output_tokens,
                total_tokens |-> data.usage.input_tokens
                                   + data.usage.output_tokens]]

(***************************************************************************)
(* Bank: supported currencies, unit factors, rate oracle, conversion.      *)
(***************************************************************************)
SUPPORTED == <<"USD", "USDC", "ETH", "BTC", "SOL">>
Currencies == {SUPPORTED[i] : i \in 1..Len(SUPPORTED)}

UNITS ==
    [USD |-> 1000000, USDC |-> 1000000, ETH |-> 1000000000,
     BTC |-> 100000000, SOL |-> 1000000000]

EMPTY_BALANCES == [c \in Currencies |-> 0]

RATE_TTL == 60000

\* A USD price is a number of thousandths of a dollar (1234 is $1.234).
RateScale == 1000

\* Numbers beyond the checker's integer range, as the handlers' amounts may
\* be: a non-negative integer is the sequence of its binary digits, least
\* significant first, without leading zeros.
RECURSIVE BinOf(_)
BinOf(n) == IF n = 0 THEN <<>> ELSE <<n % 2>> \o BinOf(n \div 2)

\* the integer whose digits 1 are at the positions (exponents of 2) in s
BinOfExponents(s) ==
    IF s = {} THEN <<>>
    ELSE LET top == CHOOSE e \in s : \A f \in s : f <= e
         IN  [i \in 1..(top + 1) |-> IF (i - 1) \in s THEN 1 ELSE 0]

RECURSIVE BinTrim(_)
BinTrim(b) ==
    IF b # <<>> /\ b[Len(b)] = 0 THEN BinTrim(SubSeq(b, 1, Len(b) - 1)) ELSE b

\* the Number of a digit sequence that is below 2^31
RECURSIVE BinToInt(_)
BinToInt(b) == IF b = <<>> THEN 0 ELSE Head(b) + 2 * BinToInt(Tail(b))

\* the w lowest digits of n
BinPad(n, w) == [i \in 1..w |-> (n \div 2 ^ (i - 1)) % 2]

\* b * m + carry, eight digits of b at a time while m is small enough for
\* the partial products to stay in the checker's integer range
RECURSIVE BinMulAdd(_, _, _)
BinMulAdd(b, m, carry) ==
    IF b = <<>> THEN BinOf(carry)
    ELSE LET w == IF m < 2 ^ 22 /\ Len(b) >= 8 THEN 8 ELSE 1
             t == BinToInt(SubSeq(b, 1, w)) * m + carry
         IN  BinPad(t % 2 ^ w, w) \o BinMulAdd(SubSeq(b, w + 1, Len(b)), m,
                                               t \div 2 ^ w)

\* a + b + carry, digit by digit
RECURSIVE BinAddFrom(_, _, _)
BinAddFrom(a, b, carry) ==
    IF a = <<>> /\ b = <<>> THEN BinOf(carry)
    ELSE LET t == (IF a = <<>> THEN 0 ELSE Head(a))
                    + (IF b = <<>> THEN 0 ELSE Head(b)) + carry
         IN  <<t % 2>> \o BinAddFrom(IF a = <<>> THEN <<>> ELSE Tail(a),
                                     IF b = <<>> THEN <<>> ELSE Tail(b),
                                     t \div 2)

\* the integer a + b
BinAdd(a, b) == BinAddFrom(a, b, 0)

BinReverse(b) == [i \in 1..Len(b) |-> b[Len(b) + 1 - i]]

\* the truncated quotient by d of the digits in m, most significant first,
\* rem being the remainder of the digits already divided; eight digits at a
\* time while d is small enough
RECURSIVE BinDivFrom(_, _, _)
BinDivFrom(m, d, rem) ==
    IF m = <<>> THEN <<>>
    ELSE LET w == IF d < 2 ^ 22 /\ Len(m) >= 8 THEN 8 ELSE 1
             t == rem * 2 ^ w + BinToInt(BinReverse(SubSeq(m, 1, w)))
         IN  BinReverse(BinPad(t \div d, w))
               \o BinDivFrom(SubSeq(m, w + 1, Len(m)), d, t % d)

BinDiv(b, d) == BinTrim(BinReverse(BinDivFrom(BinReverse(b), d, 0)))

BinLess(a, b) ==
    IF Len(a) # Len(b) THEN Len(a) < Len(b)
    ELSE \E i \in 1..Len(a) :
            /\ a[i] < b[i]
            /\ \A j \in (i + 1)..Len(a) : a[j] = b[j]

\* Number(result) of a BigInt: the nearest value with a significand of 53
\* binary digits, a tie going to the even significand
SignificandBits == 53
BinNumber(b) ==
    IF Len(b) <= SignificandBits THEN b
    ELSE LET k == Len(b) - SignificandBits
             kept == SubSeq(b, k + 1, Len(b))
             rest == \E i \in 1..(k - 1) : b[i] = 1
             up == b[k] = 1 /\ (rest \/ kept[1] = 1)
         IN  [i \in 1..k |-> 0] \o (IF up THEN BinMulAdd(kept, 1, 1) ELSE kept)

\* cur + amount of two Numbers that are non-negative integers: the sum,
\* rounded to a Number
Plus(cur, amount) == BinNumber(BinAdd(cur, amount))

\* Math.round(rate * 100) for a price of mills thousandths of a dollar, in the
\* binary floating point of the language.  The oracle's JSON number parses to
\* the nearest Number: the quotient mills / 1000 is taken with 65 binary
\* places and one more digit that records an inexact division, which decides
\* the rounding to 53 significant digits.  The product by 100 is rounded
\* again, and Math.round is floor(x + 0.5): with t the floor of twice the
\* product, floor((t + 1) / 2).  So 1.005 * 100 is 100.49999999999999 and
\* rounds to 100.  A price that is a whole number of eighths of a dollar
\* (125 thousandths) is a Number exactly, and so are its product by 100 and
\* that product plus 0.5: there nothing is rounded but by Math.round.
\* A negative price has the digits of its opposite, and Math.round takes a
\* tie upwards: with y the product for the opposite price, the result is
\* -floor(y) when twice y is whole and -floor((t + 1) / 2) otherwise, so
\* that -0.001 * 100 rounds to 0 and -0.005 * 100, which is -0.5, also.
RoundCents(mills) ==
    IF mills % 125 = 0 THEN (mills + 5) \div 10
    ELSE LET places == 65
             scaled == [i \in 1..places |-> 0] \o BinOf(Abs(mills))
             q == BinDiv(scaled, RateScale)
             inexact == BinTrim(BinMulAdd(q, RateScale, 0)) # scaled
             rate == BinNumber(<<IF inexact THEN 1 ELSE 0>> \o q)
             product == BinNumber(BinTrim(BinMulAdd(rate, 100, 0)))
             twice == SubSeq(product, places + 1, Len(product))
             whole == \A i \in 1..Min(places, Len(product)) : product[i] = 0
         IN  IF mills >= 0 THEN BinToInt(Tail(BinMulAdd(twice, 1, 1)))
             ELSE IF whole THEN -BinToInt(Tail(twice))
             ELSE -BinToInt(Tail(BinMulAdd(twice, 1, 1)))

RECURSIVE GCD(_, _)
GCD(a, b) == IF b = 0 THEN a ELSE GCD(b, a % b)

\* BigInt division truncates toward zero
TruncDiv(n, d) ==
    IF (n >= 0) = (d > 0) THEN Abs(n) \div Abs(d) ELSE -(Abs(n) \div Abs(d))

\* (a * fromCents * toU) / (fromU * toCents) in BigInt arithmetic, which is
\* exact. The quotient is unchanged by cancelling the common factor of the two
\* unit factors and of the two prices first; the cancelled form keeps the
\* intermediate products in the checker's integer range.  Number(result) is
\* exact for the amounts of this form (below 2^31); convertCurrencyBin is the
\* same function on amounts of any size.
convertCurrency(from, to, amount, rates) ==
    IF from = to THEN amount
    ELSE LET fromCents == RoundCents(rates[from])
             toCents == RoundCents(rates[to])
             fromU == UNITS[from]
             toU == UNITS[to]
             gu == GCD(toU, fromU)
             gc == GCD(Abs(fromCents), Abs(toCents))
         IN  TruncDiv(amount * (fromCents \div gc) * (toU \div gu),
                      (fromU \div gu) * (toCents \div gc))

\* convertCurrency on an amount of any size.  BigInt arithmetic is exact; the
\* quotient is computed after cancelling the common factors as above, and the
\* result is converted to a Number.
convertCurrencyBin(from, to, amount, rates) ==
    IF from = to THEN amount
    ELSE LET fromCents == RoundCents(rates[from])
             toCents == RoundCents(rates[to])
             fromU == UNITS[from]
             toU == UNITS[to]
             gu == GCD(toU, fromU)
             gc == GCD(fromCents, toCents)
             num == BinTrim(BinMulAdd(amount,
                                      (fromCents \div gc) * (toU \div gu), 0))
         IN  BinNumber(BinDiv(num, (fromU \div gu) * (toCents \div gc)))

\* variant: the conversions are made before the currencies are compared
convertCurrencyThrowsUnguarded(from, to, halves, rates) ==
    \/ rates.null
    \/ from \notin DOMAIN rates.table
    \/ to \notin DOMAIN rates.table
    \/ halves # 0
    \/ RoundCents(rates.table[to]) = 0

\* What makes the call throw instead of return, once from differs from to:
\* rates[from] of null (TypeError); BigInt of the NaN that Math.round makes
\* of an undefined price, of the source or of the target (RangeError);
\* BigInt(amount) of a number that is not an integer (RangeError); or the
\* division by a toCents of 0 (RangeError).  rates is null, or a table.
convertCurrencyThrows(from, to, halves, rates) ==
    /\ from # to
    /\ \/ rates.null
       \/ from \notin DOMAIN rates.table
       \/ to \notin DOMAIN rates.table
       \/ halves # 0
       \/ RoundCents(rates.table[to]) = 0

\* A reply of the oracle is the object d that r.json() resolves to: a record
\* with an entry for each coin it reports (usdc stands for "usd-coin").  An
\* entry is an object: Priced(p) has the field usd, a price of p thousandths
\* of a dollar of either sign, and Unpriced has a price in another currency
\* only, so that its usd is undefined.  A coin the reply has no entry for is
\* no field of d.
Priced(p) == [usd |-> p]
Unpriced == [eur |-> 0]
CoinOf == [USDC |-> "usdc", ETH |-> "ethereum", BTC |-> "bitcoin",
           SOL |-> "solana"]
Coins == {CoinOf[c] : c \in DOMAIN CoinOf}

\* if (!d.ethereum) throw, or the TypeError of reading .usd of undefined
ReplyThrows(d) == \E k \in Coins : k \notin DOMAIN d

\* every coin has an entry with a price
WellFormed(d) ==
    \A k \in Coins : k \in DOMAIN d /\ "usd" \in DOMAIN d[k]

\* the snapshot built from an oracle reply d (USD pinned to 1): a currency
\* whose entry has no usd is undefined in it, which is written as a table
\* that has no price for the currency
RateSnapshot(d) ==
    LET priced == {c \in DOMAIN CoinOf : "usd" \in DOMAIN d[CoinOf[c]]}
    IN  [c \in priced \cup {"USD"} |->
           IF c = "USD" THEN RateScale ELSE d[CoinOf[c]].usd]

(***************************************************************************)
(* Identity: the Authorization header and the token verifier.              *)
(***************************************************************************)
BearerPrefix == <<"B", "e", "a", "r", "e", "r", " ">>

\* Accounts that exist, and a verified identity that has no account document.
AccountIds == {"a1", "a2"}
Uids == AccountIds \cup {"ghost"}
NoUser == "none"

\* The identity backend: the uid a token verifies to, or NoUser when the
\* verifier rejects it (bad signature, expired).
TokenOf(u) == <<"t", "-", u>>

\* variant: a token verifies to the uid of the other account
VerifiedUidOther(token) ==
    IF token = TokenOf("a1") THEN "a2"
    ELSE IF token = TokenOf("a2") THEN "a1"
    ELSE NoUser

VerifiedUid(token) ==
    IF \E u \in Uids : token = TokenOf(u)
    THEN CHOOSE u \in Uids : token = TokenOf(u)
    ELSE NoUser

HeaderOf(u) == BearerPrefix \o TokenOf(u)
H_none == <<>>
H_basic == <<"B", "a", "s", "i", "c", " ", "x">>
H_lower == <<"b", "e", "a", "r", "e", "r", " ">> \o TokenOf("a1")
H_expired == BearerPrefix \o <<"e", "x", "p">>
H_empty == BearerPrefix

ADMIN_API_KEY == Str("admin-secret")

\* variant: the header is compared without requiring a configured key
isAdminUnguarded(adminHeader, envKey) == adminHeader = envKey

\* isAdmin: key && req.headers["x-admin-key"] === key.  The key is truthy
\* when it is set and not the empty string.
isAdmin(adminHeader, envKey) ==
    /\ envKey # NoVal
    /\ envKey # Str("")
    /\ adminHeader = envKey

(***************************************************************************)
(* Requests.  One record per HTTP request: its inputs, the handler's       *)
(* position and locals, its response, and history counters of the store    *)
(* reads, committed store writes and upstream POSTs it performed.          *)
(***************************************************************************)
NoTx == [reads |-> <<>>, updates |-> <<>>, creates |-> <<>>, after |-> Num(0)]
NoPre == [read |-> FALSE, exists |-> FALSE, usd |-> 0]
NoResult == [model |-> <<>>, finish_reason |-> "",
             usage |-> [prompt_tokens |-> 0, completion_tokens |-> 0,
                        total_tokens |-> 0]]
NoOut == [cost |-> Num(0), balance |-> Num(0), provider |-> ""]

IdleReq ==
    [kind |-> "none", pc |-> "idle", hdr |-> <<>>, body |-> [none |-> TRUE],
     uid |-> NoUser, status |-> 0, stage |-> "", out |-> NoOut,
     pre |-> NoPre, provider |-> "", apiKey |-> "", result |-> NoResult,
     costMicros |-> Num(0), rates |-> [c \in Currencies |-> 0], converted |-> 0,
     tx |-> NoTx, attempts |-> 0,
     reads |-> 0, writes |-> 0, upstream |-> 0, upstreamOk |-> FALSE,
     upErr |-> "", upStatus |-> 0, fetched |-> "", sentTo |-> ""]

\* requests arrive in slot order
CanBegin(r) ==
    /\ rq[r].pc = "idle"
    /\ \A q \in DOMAIN rq : q < r => rq[q].pc # "idle"

\* res.status(status).json(...): the handler is finished
Respond(q, status, stage) ==
    [q EXCEPT !.pc = "done", !.status = status, !.stage = stage]

\* An error that no try block of the handler catches: the handler ends
\* without sending a response ("crashed").  What the caller then sees is
\* decided by the runtime the handler is deployed in, not by this code: the
\* rejection stays unhandled and the request unanswered (Express 4, a bare
\* Node process), or the runtime answers 500 in the handler's place
\* (Express 5, the Cloud Functions framework).  Both are possible.
Uncaught(q, stage) ==
    {[q EXCEPT !.pc = "crashed", !.stage = stage], Respond(q, 500, "uncaught")}

(***************************************************************************)
(* The store: documents carry a version (Firestore's update time); a       *)
(* transaction buffers its writes while its callback runs and commits them *)
(* only if no document it read has changed since, else the callback is     *)
(* re-run.  A callback that throws rolls the transaction back.             *)
(***************************************************************************)
(* A balance is a JavaScript number.  The handlers accept any amount of     *)
(* type number, so a balance need not be whole: balances[c] holds its whole *)
(* part (floor) and halves[c] the number of half units on top of it, which  *)
(* is exact for the amounts the model feeds in (multiples of one half).     *)
(* nan[c] says that the stored number is NaN; its two parts are then 0.     *)
NoHalves == [c \in Currencies |-> 0]
NoNaNs == [c \in Currencies |-> FALSE]
Doc(bal) ==
    [exists |-> TRUE, balances |-> bal, halves |-> NoHalves, nan |-> NoNaNs,
     ver |-> 0]
MissingDoc ==
    [exists |-> FALSE, balances |-> EMPTY_BALANCES, halves |-> NoHalves,
     nan |-> NoNaNs, ver |-> 0]

\* (snap.data().balances || {})[currency] || 0: a stored NaN reads as 0
BalanceOf(doc, currency) ==
    IF doc.nan[currency] THEN 0 ELSE doc.balances[currency]
HalvesOf(doc, currency) ==
    IF doc.nan[currency] THEN 0 ELSE doc.halves[currency]

\* the stored number itself, as getAccount returns it
StoredNumber(doc, currency) ==
    IF doc.nan[currency] THEN NaN ELSE Num(doc.balances[currency])

\* x + y, x - y, x < y and x <= 0 on numbers given as whole part and halves
SumWhole(a, ah, b, bh) == a + b + ((ah + bh) \div 2)
SumHalves(ah, bh) == (ah + bh) % 2
DiffWhole(a, ah, b, bh) == a - b - (IF ah < bh THEN 1 ELSE 0)
DiffHalves(ah, bh) == (ah - bh + 2) % 2
Less(a, ah, b, bh) == a < b \/ (a = b /\ ah < bh)
NotPositive(a, ah) == a < 0 \/ (a = 0 /\ ah = 0)

\* a journal entry with the half units of its amount, balanceBefore and
\* balanceAfter, and with the flags of those that are NaN (none, unless the
\* entry brings its own)
WithHalves(entry, amountH, beforeH, afterH) ==
    entry @@ [halves |-> [amount |-> amountH, balanceBefore |-> beforeH,
                          balanceAfter |-> afterH],
              nan |-> [amount |-> FALSE, balanceAfter |-> FALSE]]

\* the store's conflict check: no document read has been written since
TxFresh(tx) ==
    \A i \in 1..Len(tx.reads) : accounts[tx.reads[i].uid].ver = tx.reads[i].ver

\* tx.update(ref, {"balances.<currency>": number}) replaces the stored number:
\* its whole part, its half unit and whether it is NaN
RECURSIVE ApplyUpdates(_, _)
ApplyUpdates(accts, ups) ==
    IF ups = <<>> THEN accts
    ELSE LET up == Head(ups)
             whole == [accts EXCEPT ![up.uid].balances[up.currency] = up.value]
             halved == [whole EXCEPT ![up.uid].halves[up.currency] = up.halves]
         IN  ApplyUpdates(
               [halved EXCEPT ![up.uid].nan[up.currency] = up.nan],
               Tail(ups))

Written(ups) == {ups[i].uid : i \in 1..Len(ups)}

CommitAccounts(tx) ==
    LET applied == ApplyUpdates(accounts, tx.updates)
    IN  [u \in DOMAIN accounts |->
           IF u \in Written(tx.updates)
           THEN [applied[u] EXCEPT !.ver = @ + 1]
           ELSE applied[u]]

\* tx.create(db.collection("transactions").doc(), entry): a fresh document id
CommitJournal(r, tx) ==
    journal \o [i \in 1..Len(tx.creates) |->
                  [id |-> Len(journal) + i, req |-> r, entry |-> tx.creates[i]]]

ReadOf(u) == [uid |-> u, ver |-> accounts[u].ver]

(***************************************************************************)
(* Proxy: POST /v1/chat/completions.                                       *)
(***************************************************************************)
\* authenticate: the verified uid, or NoUser (401)
authenticate(hdr) ==
    IF ~StartsWith(hdr, BearerPrefix) THEN NoUser
    ELSE VerifiedUid(Substring(hdr, 7))

\* variant: the pre-check never rejects
PreCheckAlwaysPasses(usd) == TRUE

\* pre-check guard: (balances.USD || 0) < MIN_BALANCE_MICROS rejects with 402
PreCheckPasses(usd) == ~(usd < MIN_BALANCE_MICROS)

\* variant: the cost is computed for the model named in the request
BillingModelFromRequest(requestModel, result) == requestModel

\* the model and usage the cost is computed from
BillingModel(requestModel, result) == result.model

\* in-transaction guard: current < costMicros throws INSUFFICIENT_FUNDS; the
\* comparison with a cost of NaN is false
DebitAllowed(current, costMicros) ==
    ~(~costMicros.nan /\ current < costMicros.value)

\* variant: the balance is read outside the transaction (accountRef.get()),
\* so the store cannot detect a conflicting commit
DebitReadsOutsideTx(u) == <<>>

\* the documents the debit callback reads through the transaction
DebitReads(u) == <<ReadOf(u)>>

\* variant: the update replaces the balances map by one that holds USD only
DebitUpdatesWholeMap(u, balanceAfter, afterH) ==
    <<[uid |-> u, currency |-> "USD", value |-> balanceAfter.value,
       halves |-> afterH, nan |-> balanceAfter.nan]>>
      \o [i \in 1..1 |-> [uid |-> u, currency |-> "ETH", value |-> 0,
                          halves |-> 0, nan |-> FALSE]]

\* tx.update(accountRef, {"balances.USD": balanceAfter})
DebitUpdates(u, balanceAfter, afterH) ==
    <<[uid |-> u, currency |-> "USD", value |-> balanceAfter.value,
       halves |-> afterH, nan |-> balanceAfter.nan]>>

\* amount: costMicros and balanceAfter, each of which may be NaN
LlmUsageEntry(u, providerName, result, costMicros, current, balanceAfter) ==
    [accountId |-> u, type |-> "llm_usage", currency |-> "USD",
     amount |-> costMicros.value, balanceBefore |-> current,
     balanceAfter |-> balanceAfter.value,
     nan |-> [amount |-> costMicros.nan, balanceAfter |-> balanceAfter.nan],
     metadata |-> [provider |-> providerName, model |-> result.model,
                   promptTokens |-> result.usage.prompt_tokens,
                   completionTokens |-> result.usage.completion_tokens]]

\* an error caught by the handler: its message and, for an axios error that
\* carries an HTTP response, that response's status
Thrown(message) == [message |-> message, hasResponse |-> FALSE, status |-> 0]
HttpError(httpStatus) ==
    [message |-> "Request failed", hasResponse |-> TRUE, status |-> httpStatus]

\* variant: INSUFFICIENT_FUNDS is not mapped to 402
ChatCatchGeneric(e) == IF e.hasResponse THEN e.status ELSE 500

\* variant: an upstream HTTP error is not passed through
ChatCatchNoPassthrough(e) ==
    IF e.message = "INSUFFICIENT_FUNDS" THEN 402 ELSE 500

\* the catch block of the handler: the status it answers with
ChatCatch(e) ==
    IF e.message = "INSUFFICIENT_FUNDS" THEN 402
    ELSE IF e.hasResponse THEN e.status
    ELSE 500

BeginChat(r, hdr, model, tools) ==
    /\ CanBegin(r)
    /\ rq' = [rq EXCEPT ![r] = [IdleReq EXCEPT !.kind = "chat", !.pc = "auth",
                                  !.hdr = hdr,
                                  !.body = [model |-> model, tools |-> tools]]]
    /\ UNCHANGED <<accounts, journal, keyCache, rateCache, rateCacheExp, now>>

\* app.use(express.json({limit: "1mb"})) runs before authenticate: a body that
\* is not valid JSON, or one above the limit, is answered by Express (400 or
\* 413) and the request reaches neither authenticate nor the handler
ChatBodyRejected(r, hdr, status) ==
    /\ CanBegin(r)
    /\ rq' = [rq EXCEPT ![r] =
                Respond([IdleReq EXCEPT !.kind = "chat", !.hdr = hdr,
                                        !.body = [model |-> <<>>, tools |-> FALSE]],
                        status, "parse")]
    /\ UNCHANGED <<accounts, journal, keyCache, rateCache, rateCacheExp, now>>

\* variant: tools are refused for no provider
ToolsRejectedNever(providerName, tools) == FALSE

\* providerName === "anthropic" && req.body.tools
ToolsRejected(providerName, tools) == providerName = "anthropic" /\ tools

\* authenticate, then the synchronous head of the handler: model and tools checks
ChatAuth(r) ==
    /\ rq[r].kind = "chat"
    /\ rq[r].pc = "auth"
    /\ LET q == rq[r]
           u == authenticate(q.hdr)
           providerName == detectProvider(q.body.model)
       IN  rq' = [rq EXCEPT ![r] =
                 IF u = NoUser THEN Respond(q, 401, "auth")
                 ELSE IF q.body.model = <<>>
                      THEN Respond([q EXCEPT !.uid = u], 400, "validate")
                 ELSE IF ToolsRejected(providerName, q.body.tools)
                      THEN Respond([q EXCEPT !.uid = u], 400, "validate")
                 ELSE [q EXCEPT !.uid = u, !.provider = providerName,
                                !.pc = "precheck"]]
    /\ UNCHANGED <<accounts, journal, keyCache, rateCache, rateCacheExp, now>>

\* accountRef.get() and the advisory balance check
ChatPreCheck(r) ==
    /\ rq[r].kind = "chat"
    /\ rq[r].pc = "precheck"
    /\ LET q == [rq[r] EXCEPT !.reads = @ + 1,
                              !.pre = [read |-> TRUE,
                                       exists |-> accounts[rq[r].uid].exists,
                                       usd |-> BalanceOf(accounts[rq[r].uid], "USD")]]
       IN  rq' = [rq EXCEPT ![r] =
                 IF ~q.pre.exists THEN Respond(q, 404, "precheck")
                 ELSE IF ~PreCheckPasses(q.pre.usd) THEN Respond(q, 402, "precheck")
                 ELSE [q EXCEPT !.pc = "key"]]
    /\ UNCHANGED <<accounts, journal, keyCache, rateCache, rateCacheExp, now>>

\* keyCache.get(secretName) / keyCache.set(secretName, ...): the entry of a name
CacheSlot(secretName) == secretName

\* variant: a cached key never expires
KeyFreshAlways(cached, t) == cached.cached

\* cached && Date.now() < cached.expiry
KeyFresh(cached, t) == cached.cached /\ t < cached.expiry

\* accountRef.get() rejects (the store is unavailable): the read is outside
\* the handler's try blocks
ChatPreCheckFails(r) ==
    /\ rq[r].kind = "chat"
    /\ rq[r].pc = "precheck"
    /\ \E q2 \in Uncaught(rq[r], "precheck") : rq' = [rq EXCEPT ![r] = q2]
    /\ UNCHANGED <<accounts, journal, keyCache, rateCache, rateCacheExp, now>>

\* getApiKey(provider.secret) up to its await: a fresh cache entry is returned
\* at once, otherwise the secret store is asked and the handler suspends
ChatGetKey(r) ==
    /\ rq[r].kind = "chat"
    /\ rq[r].pc = "key"
    /\ LET q == rq[r]
           secretName == PROVIDERS[q.provider].secret
           cached == keyCache[CacheSlot(secretName)]
       IN  rq' = [rq EXCEPT ![r] =
                 IF KeyFresh(cached, now)
                 THEN [q EXCEPT !.apiKey = cached.key, !.pc = "upstream"]
                 ELSE [q EXCEPT !.pc = "secret"]]
    /\ UNCHANGED <<accounts, journal, keyCache, rateCache, rateCacheExp, now>>

\* variant: the failure is answered like any other internal error
KeyCatchGeneric(providerName) == 500

\* the catch around getApiKey: "<provider> is not configured"
KeyCatch(providerName) == 503

\* sm.accessSecretVersion settles: the fetched key is cached with
\* expiry Date.now() + CACHE_TTL and returned, or the rejection is caught by
\* the handler (503) and nothing is cached
ChatKeyFetched(r, fetchOk) ==
    /\ rq[r].kind = "chat"
    /\ rq[r].pc = "secret"
    /\ LET q == rq[r]
           secretName == PROVIDERS[q.provider].secret
       IN  IF fetchOk
           THEN /\ keyCache' = [keyCache EXCEPT ![CacheSlot(secretName)] =
                                  [cached |-> TRUE, key |-> secretName,
                                   expiry |-> now + CACHE_TTL]]
                /\ rq' = [rq EXCEPT ![r] = [q EXCEPT !.apiKey = secretName,
                                                     !.pc = "upstream"]]
           ELSE /\ rq' = [rq EXCEPT ![r] =
                            Respond(q, KeyCatch(q.provider), "key")]
                /\ UNCHANGED keyCache
    /\ UNCHANGED <<accounts, journal, rateCache, rateCacheExp, now>>

\* axios.post resolves: translate back, compute the cost from the reply
ChatUpstreamOk(r, data) ==
    /\ rq[r].kind = "chat"
    /\ rq[r].pc = "upstream"
    /\ data.format = (IF PROVIDERS[rq[r].provider].translate
                      THEN "anthropic" ELSE "openai")
    /\ LET q == rq[r]
           result == IF PROVIDERS[q.provider].translate
                     THEN fromAnthropicResponse(data.body)
                     ELSE data.body
           costMicros == calculateCostMicros(
                             BillingModel(q.body.model, result),
                             result.usage.prompt_tokens,
                             result.usage.completion_tokens)
       IN  rq' = [rq EXCEPT ![r] = [q EXCEPT !.upstream = @ + 1,
                                             !.sentTo = PROVIDERS[q.provider].baseUrl,
                                             !.upstreamOk = TRUE,
                                             !.result = result,
                                             !.costMicros = costMicros,
                                             !.pc = "tx"]]
    /\ UNCHANGED <<accounts, journal, keyCache, rateCache, rateCacheExp, now>>

\* axios.post rejects with an HTTP response: forward its status
ChatUpstreamHttpError(r, httpStatus) ==
    /\ rq[r].kind = "chat"
    /\ rq[r].pc = "upstream"
    /\ rq' = [rq EXCEPT ![r] =
                Respond([rq[r] EXCEPT !.upstream = @ + 1, !.upErr = "http",
                                      !.sentTo = PROVIDERS[rq[r].provider].baseUrl,
                                      !.upStatus = httpStatus],
                        ChatCatch(HttpError(httpStatus)), "upstream")]
    /\ UNCHANGED <<accounts, journal, keyCache, rateCache, rateCacheExp, now>>

\* axios.post rejects without a response (network error, 120 s timeout)
ChatUpstreamNetworkError(r) ==
    /\ rq[r].kind = "chat"
    /\ rq[r].pc = "upstream"
    /\ rq' = [rq EXCEPT ![r] =
                Respond([rq[r] EXCEPT !.upstream = @ + 1, !.upErr = "network",
                                      !.sentTo = PROVIDERS[rq[r].provider].baseUrl],
                        ChatCatch(Thrown("Network timeout")), "upstream")]
    /\ UNCHANGED <<accounts, journal, keyCache, rateCache, rateCacheExp, now>>

\* variant: runTransaction is not awaited; the handler answers 200 as soon as
\* the callback has run, whether or not the store commits
ChatDebitRunRespondsEarly(r) ==
    /\ rq[r].kind = "chat"
    /\ rq[r].pc = "tx"
    /\ LET q == [rq[r] EXCEPT !.reads = @ + 1, !.attempts = @ + 1]
           current == BalanceOf(accounts[q.uid], "USD")
       IN  rq' = [rq EXCEPT ![r] =
                 IF ~DebitAllowed(current, q.costMicros)
                 THEN Respond(q, ChatCatch(Thrown("INSUFFICIENT_FUNDS")), "debit")
                 ELSE Respond([q EXCEPT !.out = [cost |-> q.costMicros,
                                                 balance |->
                                                   Minus(current, q.costMicros),
                                                 provider |-> q.provider]],
                              200, "commit")]
    /\ UNCHANGED <<accounts, journal, keyCache, rateCache, rateCacheExp, now>>

\* one run of the debit transaction's callback.  The cost is a whole number
\* (Math.ceil), so comparing and subtracting it acts on the whole part of the
\* balance and leaves its half units as read; the update writes the whole
\* number.  A cost of NaN passes the guard and makes balanceAfter NaN, which
\* is written to the account and to the entry.
ChatDebitRun(r) ==
    /\ rq[r].kind = "chat"
    /\ rq[r].pc = "tx"
    /\ LET q == [rq[r] EXCEPT !.reads = @ + 1, !.attempts = @ + 1]
           doc == accounts[q.uid]
           current == BalanceOf(doc, "USD")
           h == HalvesOf(doc, "USD")
           balanceAfter == Minus(current, q.costMicros)
           afterH == IF balanceAfter.nan THEN 0 ELSE h
       IN  rq' = [rq EXCEPT ![r] =
                 IF ~doc.exists
                 THEN Respond(q, ChatCatch(Thrown("TypeError")), "debit")
                 ELSE IF ~DebitAllowed(current, q.costMicros)
                 THEN Respond(q, ChatCatch(Thrown("INSUFFICIENT_FUNDS")), "debit")
                 ELSE [q EXCEPT
                         !.pc = "commit",
                         !.tx = [reads |-> DebitReads(q.uid),
                                 updates |-> DebitUpdates(q.uid, balanceAfter,
                                                         afterH),
                                 creates |-> <<WithHalves(
                                                 LlmUsageEntry(q.uid, q.provider,
                                                   q.result, q.costMicros,
                                                   current, balanceAfter),
                                                 0, h, afterH)>>,
                                 after |-> balanceAfter]]]
    /\ UNCHANGED <<accounts, journal, keyCache, rateCache, rateCacheExp, now>>

\* the store commits the buffered writes and the handler answers 200 with the
\* billing headers, or the store detects a conflict and re-runs the callback
ChatDebitCommit(r) ==
    /\ rq[r].kind = "chat"
    /\ rq[r].pc = "commit"
    /\ LET q == rq[r]
       IN  IF TxFresh(q.tx)
           THEN /\ accounts' = CommitAccounts(q.tx)
                /\ journal' = CommitJournal(r, q.tx)
                /\ rq' = [rq EXCEPT ![r] =
                            Respond([q EXCEPT !.writes = @ + 1,
                                              !.out = [cost |-> q.costMicros,
                                                       balance |-> q.tx.after,
                                                       provider |-> q.provider]],
                                    200, "commit")]
           ELSE /\ rq' = [rq EXCEPT ![r] = [q EXCEPT !.pc = "tx", !.tx = NoTx]]
                /\ UNCHANGED <<accounts, journal>>
    /\ UNCHANGED <<keyCache, rateCache, rateCacheExp, now>>

\* variant: after a store error the handler goes back to the provider
ChatDebitStoreErrorRetries(r) ==
    /\ rq[r].kind = "chat"
    /\ rq[r].pc \in {"tx", "commit"}
    /\ rq[r].upstream < 2
    /\ rq' = [rq EXCEPT ![r] = [rq[r] EXCEPT !.pc = "upstream", !.tx = NoTx]]
    /\ UNCHANGED <<accounts, journal, keyCache, rateCache, rateCacheExp, now>>

\* db.runTransaction rejects (the store is unavailable) before anything is
\* committed: the rejection is caught by the handler's catch block
ChatDebitStoreError(r) ==
    /\ rq[r].kind = "chat"
    /\ rq[r].pc \in {"tx", "commit"}
    /\ rq' = [rq EXCEPT ![r] =
                Respond([rq[r] EXCEPT !.tx = NoTx],
                        ChatCatch(Thrown("UNAVAILABLE")), "debit-store")]
    /\ UNCHANGED <<accounts, journal, keyCache, rateCache, rateCacheExp, now>>

(***************************************************************************)
(* Bank functions: deposit, transfer, convert, getAccount, getTransactions.*)
(***************************************************************************)
\* variant: the scheme prefix is not checked before the token is verified
verifyIdTokenNoScheme(hdr) == VerifiedUid(Substring(hdr, 7))

\* verifyIdToken: the verified uid, or NoUser (401 already sent)
verifyIdToken(hdr) ==
    IF ~StartsWith(hdr, BearerPrefix) THEN NoUser
    ELSE VerifiedUid(Substring(hdr, 7))

\* typeof amount !== "number" || amount <= 0
BadAmount(body) ==
    body.amountType # "number" \/ NotPositive(body.amount, body.halves)

IsSupported(currency) == \E i \in 1..Len(SUPPORTED) : SUPPORTED[i] = currency

DepositEntry(accountId, currency, amount, cur, balAfter) ==
    [accountId |-> accountId, type |-> "deposit", currency |-> currency,
     amount |-> amount, balanceBefore |-> cur, balanceAfter |-> balAfter]

\* the request arrives; method, admin key and body are checked synchronously:
\* any method but POST is answered 405 before anything else.
\* envKey is process.env.ADMIN_API_KEY, adminHeader the X-Admin-Key header,
\* each a string Str(s) or NoVal;
\* the amount is amount + halves/2.
BeginDeposit(r, method, envKey, adminHeader, accountId, amountType, amount, halves, currency) ==
    /\ CanBegin(r)
    /\ LET q == [IdleReq EXCEPT !.kind = "deposit",
                     !.body = [method |-> method,
                               envKey |-> envKey, adminKey |-> adminHeader,
                               accountId |-> accountId,
                               amountType |-> amountType, amount |-> amount,
                               halves |-> halves, currency |-> currency]]
       IN  rq' = [rq EXCEPT ![r] =
                 IF method # "POST"
                 THEN Respond(q, 405, "method")
                 ELSE IF ~isAdmin(adminHeader, envKey)
                 THEN Respond(q, 403, "admin")
                 ELSE IF accountId = "" \/ BadAmount(q.body)
                 THEN Respond(q, 400, "validate")
                 ELSE IF ~IsSupported(currency)
                 THEN Respond(q, 400, "validate")
                 ELSE [q EXCEPT !.pc = "tx"]]
    /\ UNCHANGED <<accounts, journal, keyCache, rateCache, rateCacheExp, now>>

DepositRun(r) ==
    /\ rq[r].kind = "deposit"
    /\ rq[r].pc = "tx"
    /\ LET q == [rq[r] EXCEPT !.reads = @ + 1, !.attempts = @ + 1]
           b == q.body
           doc == accounts[b.accountId]
           cur == BalanceOf(doc, b.currency)
           curH == HalvesOf(doc, b.currency)
           balAfter == SumWhole(cur, curH, b.amount, b.halves)
           afterH == SumHalves(curH, b.halves)
       IN  rq' = [rq EXCEPT ![r] =
                 IF ~doc.exists THEN Respond(q, 404, "tx")
                 ELSE [q EXCEPT
                         !.pc = "commit",
                         !.tx = [reads |-> <<ReadOf(b.accountId)>>,
                                 updates |-> <<[uid |-> b.accountId,
                                                currency |-> b.currency,
                                                value |-> balAfter,
                                                halves |-> afterH,
                                                nan |-> FALSE]>>,
                                 creates |-> <<WithHalves(
                                                 DepositEntry(b.accountId,
                                                   b.currency, b.amount, cur,
                                                   balAfter),
                                                 b.halves, curH, afterH)>>,
                                 after |-> Num(balAfter)]]]
    /\ UNCHANGED <<accounts, journal, keyCache, rateCache, rateCacheExp, now>>

DepositCommit(r) ==
    /\ rq[r].kind = "deposit"
    /\ rq[r].pc = "commit"
    /\ LET q == rq[r]
       IN  IF TxFresh(q.tx)
           THEN /\ accounts' = CommitAccounts(q.tx)
                /\ journal' = CommitJournal(r, q.tx)
                /\ rq' = [rq EXCEPT ![r] =
                            Respond([q EXCEPT !.writes = @ + 1,
                                              !.out.balance = q.tx.after],
                                    200, "commit")]
           ELSE /\ rq' = [rq EXCEPT ![r] = [q EXCEPT !.pc = "tx", !.tx = NoTx]]
                /\ UNCHANGED <<accounts, journal>>
    /\ UNCHANGED <<keyCache, rateCache, rateCacheExp, now>>

\* db.runTransaction rejects (the store is unavailable) before the callback
\* runs or when the writes are committed: nothing is written, and the catch
\* answers every error but ACCOUNT_NOT_FOUND with 500 "Deposit failed"
DepositStoreError(r) ==
    /\ rq[r].kind = "deposit"
    /\ rq[r].pc \in {"tx", "commit"}
    /\ rq' = [rq EXCEPT ![r] = Respond([rq[r] EXCEPT !.tx = NoTx], 500, "store")]
    /\ UNCHANGED <<accounts, journal, keyCache, rateCache, rateCacheExp, now>>

(* ---------------------------- transfer --------------------------------- *)
\* variant: the sender's entry names the sender itself as counterparty
TransferOutEntrySelf(u, toAccountId, currency, amount, sBal, senderAfter) ==
    [accountId |-> u, type |-> "transfer_out", currency |-> currency,
     amount |-> amount, balanceBefore |-> sBal, balanceAfter |-> senderAfter,
     metadata |-> [counterparty |-> u]]

TransferOutEntry(u, toAccountId, currency, amount, sBal, senderAfter) ==
    [accountId |-> u, type |-> "transfer_out", currency |-> currency,
     amount |-> amount, balanceBefore |-> sBal, balanceAfter |-> senderAfter,
     metadata |-> [counterparty |-> toAccountId]]

\* balanceAfter: rBal + amount
TransferInEntry(u, toAccountId, currency, amount, amountH, rBal, rH) ==
    WithHalves(
      [accountId |-> toAccountId, type |-> "transfer_in", currency |-> currency,
       amount |-> amount, balanceBefore |-> rBal,
       balanceAfter |-> SumWhole(rBal, rH, amount, amountH),
       metadata |-> [counterparty |-> u]],
      amountH, rH, SumHalves(rH, amountH))

\* a request body is JSON: toAccountId may be an array holding an account id
JsonArrayOf == [a1 |-> "[a1]", a2 |-> "[a2]"]

\* `accounts/${toAccountId}`: the template literal converts the value to a
\* string, and an array converts to its elements joined by commas
TemplateString(v) ==
    IF \E u \in DOMAIN JsonArrayOf : JsonArrayOf[u] = v
    THEN CHOOSE u \in DOMAIN JsonArrayOf : JsonArrayOf[u] = v
    ELSE v

\* the transfer callback's catch: only two messages are mapped
TransferCatchStatus(message) ==
    IF message = "INSUFFICIENT_FUNDS" THEN 402
    ELSE IF message = "RECIPIENT_NOT_FOUND" THEN 404
    ELSE 500

\* the request arrives: any method but POST is answered 405 before the token
\* is looked at
BeginTransfer(r, method, hdr, toAccountId, amountType, amount, halves, currency) ==
    /\ CanBegin(r)
    /\ LET q == [IdleReq EXCEPT !.kind = "transfer", !.hdr = hdr,
                     !.body = [method |-> method, toAccountId |-> toAccountId,
                               amountType |-> amountType, amount |-> amount,
                               halves |-> halves, currency |-> currency]]
       IN  rq' = [rq EXCEPT ![r] =
                 IF method # "POST"
                 THEN Respond(q, 405, "method")
                 ELSE [q EXCEPT !.pc = "auth"]]
    /\ UNCHANGED <<accounts, journal, keyCache, rateCache, rateCacheExp, now>>

TransferAuth(r) ==
    /\ rq[r].kind = "transfer"
    /\ rq[r].pc = "auth"
    /\ LET q == rq[r]
           u == verifyIdToken(q.hdr)
           b == q.body
       IN  rq' = [rq EXCEPT ![r] =
                 IF u = NoUser THEN Respond(q, 401, "auth")
                 ELSE IF b.toAccountId = "" \/ BadAmount(b)
                 THEN Respond([q EXCEPT !.uid = u], 400, "validate")
                 ELSE IF ~IsSupported(b.currency)
                 THEN Respond([q EXCEPT !.uid = u], 400, "validate")
                 ELSE IF b.toAccountId = u
                 THEN Respond([q EXCEPT !.uid = u], 400, "validate")
                 ELSE [q EXCEPT !.uid = u, !.pc = "tx"]]
    /\ UNCHANGED <<accounts, journal, keyCache, rateCache, rateCacheExp, now>>

TransferRun(r) ==
    /\ rq[r].kind = "transfer"
    /\ rq[r].pc = "tx"
    /\ LET q == [rq[r] EXCEPT !.reads = @ + 2, !.attempts = @ + 1]
           b == q.body
           sDoc == accounts[q.uid]
           rDoc == accounts[TemplateString(b.toAccountId)]
           sBal == BalanceOf(sDoc, b.currency)
           sH == HalvesOf(sDoc, b.currency)
           rBal == BalanceOf(rDoc, b.currency)
           rH == HalvesOf(rDoc, b.currency)
           senderAfter == DiffWhole(sBal, sH, b.amount, b.halves)
           senderAfterH == DiffHalves(sH, b.halves)
           recipientAfter == SumWhole(rBal, rH, b.amount, b.halves)
           recipientAfterH == SumHalves(rH, b.halves)
       IN  rq' = [rq EXCEPT ![r] =
                 IF ~sDoc.exists
                 THEN Respond(q, TransferCatchStatus("SENDER_NOT_FOUND"), "tx")
                 ELSE IF ~rDoc.exists
                 THEN Respond(q, TransferCatchStatus("RECIPIENT_NOT_FOUND"), "tx")
                 ELSE IF Less(sBal, sH, b.amount, b.halves)
                 THEN Respond(q, TransferCatchStatus("INSUFFICIENT_FUNDS"), "tx")
                 ELSE [q EXCEPT
                         !.pc = "commit",
                         !.tx = [reads |-> <<ReadOf(q.uid),
                                             ReadOf(TemplateString(b.toAccountId))>>,
                                 updates |-> <<[uid |-> q.uid,
                                                currency |-> b.currency,
                                                value |-> senderAfter,
                                                halves |-> senderAfterH,
                                                nan |-> FALSE],
                                               [uid |-> TemplateString(b.toAccountId),
                                                currency |-> b.currency,
                                                value |-> recipientAfter,
                                                halves |-> recipientAfterH,
                                                nan |-> FALSE]>>,
                                 creates |-> <<WithHalves(
                                                 TransferOutEntry(q.uid,
                                                   b.toAccountId, b.currency,
                                                   b.amount, sBal, senderAfter),
                                                 b.halves, sH, senderAfterH),
                                               TransferInEntry(q.uid,
                                                 b.toAccountId, b.currency,
                                                 b.amount, b.halves, rBal,
                                                 rH)>>,
                                 after |-> Num(senderAfter)]]]
    /\ UNCHANGED <<accounts, journal, keyCache, rateCache, rateCacheExp, now>>

TransferCommit(r) ==
    /\ rq[r].kind = "transfer"
    /\ rq[r].pc = "commit"
    /\ LET q == rq[r]
       IN  IF TxFresh(q.tx)
           THEN /\ accounts' = CommitAccounts(q.tx)
                /\ journal' = CommitJournal(r, q.tx)
                /\ rq' = [rq EXCEPT ![r] =
                            Respond([q EXCEPT !.writes = @ + 1,
                                              !.out.balance = q.tx.after],
                                    200, "commit")]
           ELSE /\ rq' = [rq EXCEPT ![r] = [q EXCEPT !.pc = "tx", !.tx = NoTx]]
                /\ UNCHANGED <<accounts, journal>>
    /\ UNCHANGED <<keyCache, rateCache, rateCacheExp, now>>

\* db.runTransaction rejects (the store is unavailable) before the callback
\* runs or when the writes are committed: nothing is written, and the catch
\* answers 500 "Transfer failed"
TransferStoreError(r) ==
    /\ rq[r].kind = "transfer"
    /\ rq[r].pc \in {"tx", "commit"}
    /\ rq' = [rq EXCEPT ![r] =
                Respond([rq[r] EXCEPT !.tx = NoTx],
                        TransferCatchStatus("UNAVAILABLE"), "store")]
    /\ UNCHANGED <<accounts, journal, keyCache, rateCache, rateCacheExp, now>>

(* ----------------------------- convert --------------------------------- *)
ConversionEntry(u, from, to, amount, converted, fromBal, rates) ==
    [accountId |-> u, type |-> "conversion", currency |-> from,
     amount |-> amount, balanceBefore |-> fromBal,
     balanceAfter |-> fromBal - amount,
     metadata |-> [fromCurrency |-> from, toCurrency |-> to,
                   fromAmount |-> amount, toAmount |-> converted,
                   rateUsed |-> <<rates[from], rates[to]>>]]

\* variant: the catch maps no message
ConvertCatchGeneric(message) == 500

ConvertCatchStatus(message) ==
    IF message = "INSUFFICIENT_FUNDS" THEN 402 ELSE 500

\* the request arrives: any method but POST is answered 405 before the token
\* is looked at
BeginConvert(r, method, hdr, from, to, amountType, amount, halves) ==
    /\ CanBegin(r)
    /\ LET q == [IdleReq EXCEPT !.kind = "convert", !.hdr = hdr,
                     !.body = [method |-> method, from |-> from, to |-> to,
                               amountType |-> amountType, amount |-> amount,
                               halves |-> halves]]
       IN  rq' = [rq EXCEPT ![r] =
                 IF method # "POST"
                 THEN Respond(q, 405, "method")
                 ELSE [q EXCEPT !.pc = "auth"]]
    /\ UNCHANGED <<accounts, journal, keyCache, rateCache, rateCacheExp, now>>

ConvertAuth(r) ==
    /\ rq[r].kind = "convert"
    /\ rq[r].pc = "auth"
    /\ LET q == rq[r]
           u == verifyIdToken(q.hdr)
           b == q.body
       IN  rq' = [rq EXCEPT ![r] =
                 IF u = NoUser THEN Respond(q, 401, "auth")
                 ELSE IF b.from = "" \/ b.to = "" \/ BadAmount(b)
                 THEN Respond([q EXCEPT !.uid = u], 400, "validate")
                 ELSE IF b.from = b.to
                 THEN Respond([q EXCEPT !.uid = u], 400, "validate")
                 ELSE IF ~IsSupported(b.from) \/ ~IsSupported(b.to)
                 THEN Respond([q EXCEPT !.uid = u], 400, "validate")
                 ELSE [q EXCEPT !.uid = u, !.pc = "rates"]]
    /\ UNCHANGED <<accounts, journal, keyCache, rateCache, rateCacheExp, now>>

\* variant: only a negative result is refused
AmountTooSmallStrict(converted) == converted < 0

\* if (converted <= 0): "Amount too small to convert"
AmountTooSmall(converted) == converted <= 0

\* the lines after getExchangeRates, still outside the try block:
\* convertCurrency and the converted <= 0 check: the request records that can
\* result.  Nothing catches what convertCurrency throws.
ConvertQuote(q, rates) ==
    LET b == q.body
        converted == convertCurrency(b.from, b.to, b.amount, rates)
    IN  IF convertCurrencyThrows(b.from, b.to, b.halves,
                                 [null |-> FALSE, table |-> rates])
        THEN Uncaught(q, "rates")
        ELSE IF AmountTooSmall(converted)
        THEN {Respond([q EXCEPT !.rates = rates], 400, "rates")}
        ELSE {[q EXCEPT !.rates = rates, !.converted = converted, !.pc = "tx"]}

\* getExchangeRates up to its await: an unexpired snapshot is returned at
\* once, otherwise the oracle is asked and the handler suspends
ConvertRates(r) ==
    /\ rq[r].kind = "convert"
    /\ rq[r].pc = "rates"
    /\ \E q2 \in (IF rateCache.set /\ now < rateCacheExp
                   THEN ConvertQuote(rq[r], rateCache.rates)
                   ELSE {[rq[r] EXCEPT !.pc = "oracle"]}) :
          rq' = [rq EXCEPT ![r] = q2]
    /\ UNCHANGED <<accounts, journal, keyCache, rateCache, rateCacheExp, now>>

\* the catch of getExchangeRates: the snapshot in the cache, if there is one,
\* is returned, otherwise the error is thrown again and leaves the handler
ConvertOracleCaught(q) ==
    IF rateCache.set THEN ConvertQuote(q, rateCache.rates)
    ELSE Uncaught(q, "rates")

\* await fetch(url) settles: the response arrives and the handler suspends
\* again at r.json(), or fetch rejects (no network), which is caught
ConvertOracle(r, ok) ==
    /\ rq[r].kind = "convert"
    /\ rq[r].pc = "oracle"
    /\ \E q2 \in (IF ok THEN {[rq[r] EXCEPT !.pc = "json"]}
                   ELSE ConvertOracleCaught(
                          [rq[r] EXCEPT !.fetched = "failed"])) :
          rq' = [rq EXCEPT ![r] = q2]
    /\ UNCHANGED <<accounts, journal, keyCache, rateCache, rateCacheExp, now>>

\* await r.json() settles.  parsed.ok says whether the body parses, to the
\* reply parsed.d.  A reply that passes the d.ethereum check and has an entry
\* for every coin replaces the snapshot, whatever its prices; any other
\* outcome is caught.
ConvertOracleJson(r, parsed) ==
    /\ rq[r].kind = "convert"
    /\ rq[r].pc = "json"
    /\ LET outcome == IF ~parsed.ok THEN "failed"
                      ELSE IF WellFormed(parsed.d) THEN "ok" ELSE "malformed"
           q == [rq[r] EXCEPT !.fetched = outcome]
           stored == parsed.ok /\ ~ReplyThrows(parsed.d)
       IN  /\ rateCache' = IF stored
                           THEN [set |-> TRUE, rates |-> RateSnapshot(parsed.d)]
                           ELSE rateCache
           /\ rateCacheExp' = IF stored THEN now + RATE_TTL ELSE rateCacheExp
           /\ \E q2 \in (IF stored
                          THEN ConvertQuote(q, RateSnapshot(parsed.d))
                          ELSE ConvertOracleCaught(q)) :
                 rq' = [rq EXCEPT ![r] = q2]
    /\ UNCHANGED <<accounts, journal, keyCache, now>>

\* amount and converted are whole numbers in the transaction (BigInt(amount)
\* succeeded), so the comparison and the two sums act on the whole parts of
\* the balances and leave their half units as read; each update writes the
\* whole number.
ConvertRun(r) ==
    /\ rq[r].kind = "convert"
    /\ rq[r].pc = "tx"
    /\ LET q == [rq[r] EXCEPT !.reads = @ + 1, !.attempts = @ + 1]
           b == q.body
           doc == accounts[q.uid]
           fromBal == BalanceOf(doc, b.from)
           fromH == HalvesOf(doc, b.from)
           toBal == BalanceOf(doc, b.to)
           toH == HalvesOf(doc, b.to)
       IN  rq' = [rq EXCEPT ![r] =
                 IF ~doc.exists
                 THEN Respond(q, ConvertCatchStatus("ACCOUNT_NOT_FOUND"), "tx")
                 ELSE IF fromBal < b.amount
                 THEN Respond(q, ConvertCatchStatus("INSUFFICIENT_FUNDS"), "tx")
                 ELSE [q EXCEPT
                         !.pc = "commit",
                         !.tx = [reads |-> <<ReadOf(q.uid)>>,
                                 updates |-> <<[uid |-> q.uid, currency |-> b.from,
                                                value |-> fromBal - b.amount,
                                                halves |-> fromH, nan |-> FALSE],
                                               [uid |-> q.uid, currency |-> b.to,
                                                value |-> toBal + q.converted,
                                                halves |-> toH, nan |-> FALSE]>>,
                                 creates |-> <<WithHalves(
                                                 ConversionEntry(q.uid, b.from,
                                                   b.to, b.amount, q.converted,
                                                   fromBal, q.rates),
                                                 0, fromH, fromH)>>,
                                 after |-> Num(fromBal - b.amount)]]]
    /\ UNCHANGED <<accounts, journal, keyCache, rateCache, rateCacheExp, now>>

ConvertCommit(r) ==
    /\ rq[r].kind = "convert"
    /\ rq[r].pc = "commit"
    /\ LET q == rq[r]
       IN  IF TxFresh(q.tx)
           THEN /\ accounts' = CommitAccounts(q.tx)
                /\ journal' = CommitJournal(r, q.tx)
                /\ rq' = [rq EXCEPT ![r] =
                            Respond([q EXCEPT !.writes = @ + 1,
                                              !.out.balance = q.tx.after],
                                    200, "commit")]
           ELSE /\ rq' = [rq EXCEPT ![r] = [q EXCEPT !.pc = "tx", !.tx = NoTx]]
                /\ UNCHANGED <<accounts, journal>>
    /\ UNCHANGED <<keyCache, rateCache, rateCacheExp, now>>

\* db.runTransaction rejects (the store is unavailable) before the callback
\* runs or when the writes are committed: nothing is written, and the catch
\* answers 500 "Conversion failed"
ConvertStoreError(r) ==
    /\ rq[r].kind = "convert"
    /\ rq[r].pc \in {"tx", "commit"}
    /\ rq' = [rq EXCEPT ![r] =
                Respond([rq[r] EXCEPT !.tx = NoTx],
                        ConvertCatchStatus("UNAVAILABLE"), "store")]
    /\ UNCHANGED <<accounts, journal, keyCache, rateCache, rateCacheExp, now>>

(* ------------------------------- signup -------------------------------- *)
\* The address is the sequence of its UTF-16 code units, which is what the
\* regular expression (it has no u flag) inspects.  \s is the white space and
\* the line terminators of the language: tab, line feed, vertical tab, form
\* feed, carriage return, space, no-break space, ogham space mark, en quad to
\* hair space, line and paragraph separator, narrow no-break space, medium
\* mathematical space, ideographic space and the byte order mark.
WhiteSpace ==
    {9, 10, 11, 12, 13, 32, 160, 5760, 8232, 8233, 8239, 8287, 12288, 65279}
      \cup (8192..8202)

\* /^[^\s@]+@[^\s@]+\.[^\s@]+$/.test(v): no white space, one @ (64) that is
\* not the first character, and after it a dot (46) with a character on
\* either side
isValidEmail(v) ==
    /\ \A k \in 1..Len(v) : v[k] \notin WhiteSpace
    /\ \E i \in 2..Len(v) :
          /\ v[i] = 64
          /\ \A k \in 1..Len(v) : v[k] = 64 => k = i
          /\ \E j \in (i + 2)..(Len(v) - 1) : v[j] = 46

\* "g@x.io", an address that has this form
E_ghost == <<103, 64, 120, 46, 105, 111>>

\* signup up to its first await.  A password is given by its type and its
\* length; !password holds for a missing one and for the empty string.
BeginSignup(r, method, email, passwordType, passwordLen) ==
    /\ CanBegin(r)
    /\ LET q == [IdleReq EXCEPT !.kind = "signup",
                                !.body = [method |-> method, email |-> email,
                                          passwordType |-> passwordType,
                                          passwordLen |-> passwordLen]]
       IN  rq' = [rq EXCEPT ![r] =
                 IF method # "POST" THEN Respond(q, 405, "method")
                 ELSE IF email = <<>> \/ passwordType = "undefined"
                           \/ (passwordType = "string" /\ passwordLen = 0)
                 THEN Respond(q, 400, "validate")
                 ELSE IF ~isValidEmail(email) THEN Respond(q, 400, "validate")
                 ELSE IF passwordType # "string" \/ passwordLen < 8
                 THEN Respond(q, 400, "validate")
                 ELSE [q EXCEPT !.pc = "create"]]
    /\ UNCHANGED <<accounts, journal, keyCache, rateCache, rateCacheExp, now>>

\* admin.auth().createUser settles: it rejects (the address is taken), which
\* the catch answers with 400, or it resolves with the uid of a new user, one
\* that has no account document and that no other signup was given
SignupCreateUser(r, ok, u) ==
    /\ rq[r].kind = "signup"
    /\ rq[r].pc = "create"
    /\ ok => /\ ~accounts[u].exists
             /\ \A x \in DOMAIN rq : rq[x].kind = "signup" => rq[x].uid # u
    /\ rq' = [rq EXCEPT ![r] =
                IF ok THEN [rq[r] EXCEPT !.uid = u, !.pc = "set"]
                ELSE Respond(rq[r], 400, "create")]
    /\ UNCHANGED <<accounts, journal, keyCache, rateCache, rateCacheExp, now>>

\* db.doc(`accounts/${user.uid}`).set({balances: {...EMPTY_BALANCES}, ...})
\* settles, outside any transaction: the document is written, or the store
\* rejects and the catch answers 400, the user being left without an account
SignupSet(r, ok) ==
    /\ rq[r].kind = "signup"
    /\ rq[r].pc = "set"
    /\ accounts' = IF ok
                   THEN [accounts EXCEPT ![rq[r].uid] = Doc(EMPTY_BALANCES)]
                   ELSE accounts
    /\ rq' = [rq EXCEPT ![r] =
                IF ok THEN [rq[r] EXCEPT !.writes = @ + 1, !.pc = "signin"]
                ELSE Respond(rq[r], 400, "set")]
    /\ UNCHANGED <<journal, keyCache, rateCache, rateCacheExp, now>>

\* signInWithPassword, await fetch(url, ...) settles: the response arrives
\* and the handler suspends again at r.json(), or fetch rejects and the catch
\* answers 400 (the account document stays)
SignupSignIn(r, ok) ==
    /\ rq[r].kind = "signup"
    /\ rq[r].pc = "signin"
    /\ rq' = [rq EXCEPT ![r] =
                IF ok THEN [rq[r] EXCEPT !.pc = "tokens"]
                ELSE Respond(rq[r], 400, "signin")]
    /\ UNCHANGED <<accounts, journal, keyCache, rateCache, rateCacheExp, now>>

\* signInWithPassword, await r.json() settles: 201 with the tokens; or the
\* body does not parse or carries data.error, and the catch answers 400
SignupTokens(r, ok) ==
    /\ rq[r].kind = "signup"
    /\ rq[r].pc = "tokens"
    /\ rq' = [rq EXCEPT ![r] =
                Respond(rq[r], IF ok THEN 201 ELSE 400, "signin")]
    /\ UNCHANGED <<accounts, journal, keyCache, rateCache, rateCacheExp, now>>

(* ---------------------- getAccount, getTransactions -------------------- *)
\* db.doc(...).get() rejects (the store is unavailable): getAccount has no
\* try block
GetAccountFails(r) ==
    /\ rq[r].kind = "getAccount"
    /\ rq[r].pc = "read"
    /\ \E q2 \in Uncaught(rq[r], "read") : rq' = [rq EXCEPT ![r] = q2]
    /\ UNCHANGED <<accounts, journal, keyCache, rateCache, rateCacheExp, now>>

BeginGetAccount(r, hdr) ==
    /\ CanBegin(r)
    /\ rq' = [rq EXCEPT ![r] =
                [IdleReq EXCEPT !.kind = "getAccount", !.pc = "auth", !.hdr = hdr]]
    /\ UNCHANGED <<accounts, journal, keyCache, rateCache, rateCacheExp, now>>

GetAccountAuth(r) ==
    /\ rq[r].kind = "getAccount"
    /\ rq[r].pc = "auth"
    /\ LET q == rq[r]
           u == verifyIdToken(q.hdr)
       IN  rq' = [rq EXCEPT ![r] =
                 IF u = NoUser THEN Respond(q, 401, "auth")
                 ELSE [q EXCEPT !.uid = u, !.pc = "read"]]
    /\ UNCHANGED <<accounts, journal, keyCache, rateCache, rateCacheExp, now>>

GetAccountRead(r) ==
    /\ rq[r].kind = "getAccount"
    /\ rq[r].pc = "read"
    /\ LET q == [rq[r] EXCEPT !.reads = @ + 1]
       IN  rq' = [rq EXCEPT ![r] =
                 IF ~accounts[q.uid].exists THEN Respond(q, 404, "read")
                 ELSE Respond([q EXCEPT !.out.balance =
                                  StoredNumber(accounts[q.uid], "USD")],
                              200, "read")]
    /\ UNCHANGED <<accounts, journal, keyCache, rateCache, rateCacheExp, now>>

BeginGetTransactions(r, hdr, startAfter) ==
    /\ CanBegin(r)
    /\ rq' = [rq EXCEPT ![r] =
                [IdleReq EXCEPT !.kind = "getTransactions", !.pc = "auth",
                                !.hdr = hdr,
                                !.body = [startAfter |-> startAfter]]]
    /\ UNCHANGED <<accounts, journal, keyCache, rateCache, rateCacheExp, now>>

GetTransactionsAuth(r) ==
    /\ rq[r].kind = "getTransactions"
    /\ rq[r].pc = "auth"
    /\ LET q == rq[r]
           u == verifyIdToken(q.hdr)
       IN  rq' = [rq EXCEPT ![r] =
                 IF u = NoUser THEN Respond(q, 401, "auth")
                 ELSE [q EXCEPT !.uid = u,
                                !.pc = IF q.body.startAfter THEN "cursor"
                                       ELSE "read"]]
    /\ UNCHANGED <<accounts, journal, keyCache, rateCache, rateCacheExp, now>>

\* with ?startAfter=, the read of the cursor document resolves; the handler
\* is suspended again at the query
GetTransactionsCursor(r) ==
    /\ rq[r].kind = "getTransactions"
    /\ rq[r].pc = "cursor"
    /\ rq' = [rq EXCEPT ![r] = [rq[r] EXCEPT !.reads = @ + 1, !.pc = "read"]]
    /\ UNCHANGED <<accounts, journal, keyCache, rateCache, rateCacheExp, now>>

\* the query q.get() resolves
GetTransactionsRead(r) ==
    /\ rq[r].kind = "getTransactions"
    /\ rq[r].pc = "read"
    /\ rq' = [rq EXCEPT ![r] =
                Respond([rq[r] EXCEPT !.reads = @ + 1], 200, "read")]
    /\ UNCHANGED <<accounts, journal, keyCache, rateCache, rateCacheExp, now>>

\* the cursor read or the query rejects (the store is unavailable):
\* getTransactions has no try block
GetTransactionsFails(r) ==
    /\ rq[r].kind = "getTransactions"
    /\ rq[r].pc \in {"cursor", "read"}
    /\ \E q2 \in Uncaught(rq[r], "read") : rq' = [rq EXCEPT ![r] = q2]
    /\ UNCHANGED <<accounts, journal, keyCache, rateCache, rateCacheExp, now>>

(***************************************************************************)
(* Initial states: accounts created by signup (all balances zero), one of  *)
(* them already credited by an admin deposit recorded in the journal.      *)
(***************************************************************************)
SeedEntries(bals) ==
    LET e(u) == IF bals[u] > 0
                THEN <<WithHalves(DepositEntry(u, "USD", bals[u], 0, bals[u]),
                                  0, 0, 0)>>
                ELSE <<>>
    IN  e("a1") \o e("a2")

SeedJournal(bals) ==
    [i \in 1..Len(SeedEntries(bals)) |->
       [id |-> i, req |-> 0, entry |-> SeedEntries(bals)[i]]]

InitStore(bals) ==
    /\ accounts = [u \in Uids |->
                     IF u \in AccountIds
                     THEN Doc([EMPTY_BALANCES EXCEPT !["USD"] = bals[u]])
                     ELSE MissingDoc]
    /\ journal = SeedJournal(bals)
    /\ keyCache = [s \in SecretNames |-> [cached |-> FALSE, key |-> "", expiry |-> 0]]
    /\ rateCache = [set |-> FALSE, rates |-> [c \in Currencies |-> 0]]
    /\ rateCacheExp = 0
    /\ now = 1

InitReqs(n) == rq = [r \in 1..n |-> IdleReq]

(***************************************************************************)
(* Inputs.                                                                 *)
(***************************************************************************)
OpenAIReply(model, p, c) ==
    [format |-> "openai",
     body |-> [model |-> model, finish_reason |-> "stop",
               usage |-> [prompt_tokens |-> p, completion_tokens |-> c,
                          total_tokens |-> p + c]]]

AnthropicReply(model, p, c, stop) ==
    [format |-> "anthropic",
     body |-> [model |-> model, stop_reason |-> stop,
               usage |-> [input_tokens |-> p, output_tokens |-> c]]]

OracleReply ==
    [usdc |-> Priced(1000), ethereum |-> Priced(2000000),
     bitcoin |-> Priced(60000000), solana |-> Priced(150000)]

(***************************************************************************)
(* Spec: the mixed ledger.  Deposits, transfers, conversions and chat      *)
(* completions of authenticated agents interleave on two accounts.         *)
(***************************************************************************)
Init ==
    /\ \E b \in {1500, 2000} : InitStore([u \in AccountIds |->
                                            IF u = "a1" THEN b ELSE 0])
    /\ InitReqs(MaxReqs)

LedgerReplies == {OpenAIReply(M_gpt_4o, 400, 0), OpenAIReply(M_gpt_4o, 100, 50)}

Next ==
    \E r \in 1..MaxReqs :
        \/ BeginChat(r, HeaderOf("a1"), M_gpt_4o, FALSE)
        \/ ChatAuth(r)
        \/ ChatPreCheck(r)
        \/ ChatGetKey(r)
        \/ ChatKeyFetched(r, TRUE)
        \/ \E d \in LedgerReplies : ChatUpstreamOk(r, d)
        \/ ChatDebitRun(r)
        \/ ChatDebitCommit(r)
        \/ BeginDeposit(r, "POST", ADMIN_API_KEY, ADMIN_API_KEY, "a1", "number", 1000, 0,
                        "USD")
        \/ DepositRun(r)
        \/ DepositCommit(r)
        \/ \E u \in AccountIds, amt \in {1000, 1500} :
              BeginTransfer(r, "POST", HeaderOf(u), CHOOSE v \in AccountIds : v # u,
                            "number", amt, 0, "USD")
        \/ TransferAuth(r)
        \/ TransferRun(r)
        \/ TransferCommit(r)
        \/ \E ft \in {<<"USD", "ETH">>, <<"ETH", "USD">>} :
              BeginConvert(r, "POST", HeaderOf("a1"), ft[1], ft[2], "number", 1000, 0)
        \/ ConvertAuth(r)
        \/ ConvertRates(r)
        \/ ConvertOracle(r, TRUE)
        \/ ConvertOracleJson(r, [ok |-> TRUE, d |-> OracleReply])
        \/ ConvertRun(r)
        \/ ConvertCommit(r)

Spec == Init /\ [][Next]_vars

(***************************************************************************)
(* SpecRace: NRace concurrent chat completions of one agent, every reply   *)
(* drawn from RaceReplies, and no other operation on the account; the      *)
(* store may reject a pre-check read or a debit transaction.               *)
(***************************************************************************)
RaceBalances == {500, 1500, 2000, 3000}
RaceReplies == {OpenAIReply(M_gpt_4o, 100, 50), OpenAIReply(M_gpt_4o, 400, 0)}

InitRace ==
    /\ \E b \in RaceBalances : InitStore([u \in AccountIds |->
                                            IF u = "a1" THEN b ELSE 0])
    /\ InitReqs(NRace)

NextRace ==
    \E r \in 1..NRace :
        \/ BeginChat(r, HeaderOf("a1"), M_gpt_4o, FALSE)
        \/ ChatAuth(r)
        \/ ChatPreCheck(r)
        \/ ChatGetKey(r)
        \/ ChatKeyFetched(r, TRUE)
        \/ \E d \in RaceReplies : ChatUpstreamOk(r, d)
        \/ ChatDebitRun(r)
        \/ ChatDebitCommit(r)
        \/ ChatPreCheckFails(r)
        \/ ChatDebitStoreError(r)

SpecRace == InitRace /\ [][NextRace]_vars

(***************************************************************************)
(* SpecChat: the chat-completion pipeline with its failure paths: unknown  *)
(* account, missing model, tools on a Claude model, secret fetch failure,  *)
(* upstream HTTP and network errors, a reply naming another model than the *)
(* request, a reply that reports no tokens, a reply whose model name is a  *)
(* member of Object.prototype, a balance drained between pre-check and     *)
(* debit, and a store that rejects the debit transaction.                  *)
(***************************************************************************)
ChatBalances == {500, 1500}
ChatHeaders == {HeaderOf("a1"), HeaderOf("ghost")}
ChatModels == {M_gpt_3_5_turbo, M_claude_sonnet_4_20250514, <<>>}
ChatReplies ==
    {OpenAIReply(M_gpt_4o, 100, 50), OpenAIReply(M_gpt_4o, 400, 0),
     OpenAIReply(M_gpt_4o, 0, 0), OpenAIReply(K_constructor, 100, 50),
     AnthropicReply(M_claude_sonnet_4_20250514, 100, 50, "end_turn")}
UpstreamErrorStatuses == {429}

InitChat ==
    /\ \E b \in ChatBalances : InitStore([u \in AccountIds |->
                                            IF u = "a1" THEN b ELSE 0])
    /\ InitReqs(NChat)

NextChat ==
    \E r \in 1..NChat :
        \/ \E h \in ChatHeaders, m \in ChatModels, t \in BOOLEAN :
              BeginChat(r, h, m, t)
        \/ ChatAuth(r)
        \/ ChatPreCheck(r)
        \/ ChatGetKey(r)
        \/ \E ok \in BOOLEAN : ChatKeyFetched(r, ok)
        \/ \E d \in ChatReplies : ChatUpstreamOk(r, d)
        \/ \E st \in UpstreamErrorStatuses : ChatUpstreamHttpError(r, st)
        \/ ChatUpstreamNetworkError(r)
        \/ ChatDebitRun(r)
        \/ ChatDebitCommit(r)
        \/ ChatDebitStoreError(r)

SpecChat == InitChat /\ [][NextChat]_vars

(***************************************************************************)
(* SpecAuth: every bearer-authenticated endpoint under well-formed,        *)
(* malformed and rejected Authorization headers; transfer and convert are  *)
(* also called by GET, and chat completions with a body that the JSON      *)
(* parser rejects.                                                         *)
(***************************************************************************)
AuthHeaders == {H_none, H_basic, H_lower, H_expired, H_empty, HeaderOf("a1")}
AuthMethods == {"POST", "GET"}
ParserStatuses == {400, 413}

InitAuth ==
    /\ InitStore([u \in AccountIds |-> IF u = "a1" THEN 2000 ELSE 0])
    /\ InitReqs(NAuth)

NextAuth ==
    \E r \in 1..NAuth :
        \/ \E h \in AuthHeaders : BeginChat(r, h, M_gpt_4o, FALSE)
        \/ \E h \in AuthHeaders, st \in ParserStatuses : ChatBodyRejected(r, h, st)
        \/ ChatAuth(r)
        \/ ChatPreCheck(r)
        \/ ChatGetKey(r)
        \/ ChatKeyFetched(r, TRUE)
        \/ ChatUpstreamOk(r, OpenAIReply(M_gpt_4o, 100, 50))
        \/ ChatDebitRun(r)
        \/ ChatDebitCommit(r)
        \/ \E h \in AuthHeaders, m \in AuthMethods :
              BeginTransfer(r, m, h, "a2", "number", 1000, 0, "USD")
        \/ TransferAuth(r)
        \/ TransferRun(r)
        \/ TransferCommit(r)
        \/ \E h \in AuthHeaders, m \in AuthMethods :
              BeginConvert(r, m, h, "USD", "ETH", "number", 1000, 0)
        \/ ConvertAuth(r)
        \/ ConvertRates(r)
        \/ ConvertOracle(r, TRUE)
        \/ ConvertOracleJson(r, [ok |-> TRUE, d |-> OracleReply])
        \/ ConvertRun(r)
        \/ ConvertCommit(r)
        \/ \E h \in AuthHeaders : BeginGetAccount(r, h)
        \/ GetAccountAuth(r)
        \/ GetAccountRead(r)
        \/ \E h \in AuthHeaders, sa \in BOOLEAN : BeginGetTransactions(r, h, sa)
        \/ GetTransactionsAuth(r)
        \/ GetTransactionsCursor(r)
        \/ GetTransactionsRead(r)

SpecAuth == InitAuth /\ [][NextAuth]_vars

(***************************************************************************)
(* SpecBank: deposit, transfer and convert under well-formed and malformed *)
(* request bodies, with a sender and recipients that have no account, sent *)
(* by POST or by GET, while the store may reject a transaction and while   *)
(* the identity without an account may sign up and so get one.             *)
(***************************************************************************)
Body(party, amountType, amount, currency) ==
    [party |-> party, amountType |-> amountType, amount |-> amount,
     currency |-> currency]

\* amount missing, a string, zero, negative
BadAmounts == {<<"undefined", 0>>, <<"string", 1000>>, <<"number", 0>>,
               <<"number", -1000>>}

\* a currency the bank does not list, a listed one in lower case, none
BadCurrencies == {"EUR", "usd", ""}

DepositBodies ==
    {Body(a, "number", 1000, "USD") : a \in {"a2", "ghost", ""}}
    \cup {Body("a2", x[1], x[2], "USD") : x \in BadAmounts}
    \cup {Body("a2", "number", 1000, c) : c \in BadCurrencies}

TransferSenders == {"a1", "ghost"}

\* the bodies of the requests sent by GET: a well-formed one and one that a
\* POST is refused for
GetDepositBodies ==
    {Body("a2", "number", 1000, "USD"), Body("a2", "number", 0, "USD")}
GetTransferBodies ==
    {Body("a2", "number", 1000, "USD"), Body("a1", "number", 1000, "USD")}
GetConvertBodies ==
    {Body("USD", "number", 1000, "ETH"), Body("USD", "number", 1000, "USD")}

TransferBodies ==
    {Body(a, "number", 1000, "USD") : a \in {"a1", "a2", "ghost", ""}}
    \cup {Body("a2", x[1], x[2], "USD") : x \in BadAmounts}
    \cup {Body("a2", "number", 1000, c) : c \in BadCurrencies}

\* convert bodies: party is the source currency, currency the target
ConvertBodies ==
    {Body("USD", "number", 1000, "ETH"), Body("USD", "number", 1000, "USD"),
     Body("EUR", "number", 1000, "EUR"), Body("", "number", 1000, "ETH")}
    \cup {Body("USD", x[1], x[2], "ETH") : x \in BadAmounts}
    \cup {Body("USD", "number", 1000, c) : c \in BadCurrencies}
    \cup {Body("EUR", "number", 1000, "USD")}

InitBank ==
    /\ InitStore([u \in AccountIds |-> IF u = "a1" THEN 2000 ELSE 0])
    /\ InitReqs(NBank)

NextBank ==
    \E r \in 1..NBank :
        \/ \E b \in DepositBodies :
              BeginDeposit(r, "POST", ADMIN_API_KEY, ADMIN_API_KEY, b.party,
                           b.amountType, b.amount, 0, b.currency)
        \/ \E b \in GetDepositBodies :
              BeginDeposit(r, "GET", ADMIN_API_KEY, ADMIN_API_KEY, b.party,
                           b.amountType, b.amount, 0, b.currency)
        \/ DepositRun(r)
        \/ DepositCommit(r)
        \/ DepositStoreError(r)
        \/ \E u \in TransferSenders, b \in TransferBodies :
              BeginTransfer(r, "POST", HeaderOf(u), b.party, b.amountType,
                            b.amount, 0, b.currency)
        \/ \E b \in GetTransferBodies :
              BeginTransfer(r, "GET", HeaderOf("a1"), b.party, b.amountType,
                            b.amount, 0, b.currency)
        \/ TransferAuth(r)
        \/ TransferRun(r)
        \/ TransferCommit(r)
        \/ TransferStoreError(r)
        \/ \E b \in ConvertBodies :
              BeginConvert(r, "POST", HeaderOf("a1"), b.party, b.currency,
                           b.amountType, b.amount, 0)
        \/ \E b \in GetConvertBodies :
              BeginConvert(r, "GET", HeaderOf("a1"), b.party, b.currency,
                           b.amountType, b.amount, 0)
        \/ ConvertAuth(r)
        \/ ConvertRates(r)
        \/ ConvertOracle(r, TRUE)
        \/ ConvertOracleJson(r, [ok |-> TRUE, d |-> OracleReply])
        \/ ConvertRun(r)
        \/ ConvertCommit(r)
        \/ ConvertStoreError(r)
        \/ BeginSignup(r, "POST", E_ghost, "string", 8)
        \/ SignupCreateUser(r, TRUE, "ghost")
        \/ SignupSet(r, TRUE)
        \/ SignupSignIn(r, TRUE)
        \/ SignupTokens(r, TRUE)

SpecBank == InitBank /\ [][NextBank]_vars

(***************************************************************************)
(* SpecDeposit: admin deposits only, on a credited and on a fresh account, *)
(* under the configured key, wrong keys, a missing header and an unset     *)
(* ADMIN_API_KEY, and the same request sent by GET.                        *)
(***************************************************************************)
K_injection == Str("admin-secret' OR '1'='1")
K_upper == Str("ADMIN-SECRET")
K_undefined == Str("undefined")

\* <<process.env.ADMIN_API_KEY, X-Admin-Key header>> pairs that isAdmin refuses
RefusedKeys ==
    {<<ADMIN_API_KEY, h>> : h \in {Str(""), NoVal, K_injection, K_upper}}
    \cup {<<NoVal, NoVal>>, <<Str(""), Str("")>>, <<NoVal, K_undefined>>,
          <<K_undefined, NoVal>>}

\* <<amount, currency>> of the deposits to the fresh account
FreshDeposits == {<<1000, "USD">>, <<2500, "USD">>, <<1000, "ETH">>}

InitDeposit ==
    /\ InitStore([u \in AccountIds |-> IF u = "a1" THEN 2000 ELSE 0])
    /\ InitReqs(NDeposit)

NextDeposit ==
    \E r \in 1..NDeposit :
        \/ \E k \in RefusedKeys :
              BeginDeposit(r, "POST", k[1], k[2], "a2", "number", 1000, 0, "USD")
        \/ \E d \in FreshDeposits :
              BeginDeposit(r, "POST", ADMIN_API_KEY, ADMIN_API_KEY, "a2", "number", d[1],
                           0, d[2])
        \/ \E k \in {ADMIN_API_KEY, K_undefined} :
              BeginDeposit(r, "POST", k, k, "a1", "number", 1000, 0, "USD")
        \/ \E k \in {ADMIN_API_KEY, NoVal} :
              BeginDeposit(r, "GET", ADMIN_API_KEY, k, "a2", "number", 1000, 0,
                           "USD")
        \/ DepositRun(r)
        \/ DepositCommit(r)

SpecDeposit == InitDeposit /\ [][NextDeposit]_vars

(***************************************************************************)
(* Conversions by a1 while the oracle's prices move: the cached snapshot    *)
(* expires when the clock passes rateCacheExp, the next conversion fetches  *)
(* a new reply, and a conversion that priced before the refresh commits     *)
(* after it.                                                                *)
(***************************************************************************)
MaxTicks == 1

\* Date.now() moves on by ms, while it is below limit
Advance(ms, limit) ==
    /\ now < limit
    /\ now' = now + ms
    /\ UNCHANGED <<accounts, journal, keyCache, rateCache, rateCacheExp, rq>>

\* Date.now() moves past the expiry of a snapshot cached at the current time
Tick == Advance(RATE_TTL, MaxTicks * RATE_TTL)

\* a later reply of the oracle: ETH at 2500 USD
OracleReplyLater == [OracleReply EXCEPT !.ethereum = Priced(2500000)]

\* a reply that quotes ETH below zero, at -0.001 USD
OracleReplyNegative == [OracleReply EXCEPT !.ethereum = Priced(-1)]

Fetches == {[ok |-> TRUE, d |-> OracleReply],
            [ok |-> TRUE, d |-> OracleReplyNegative]}

\* <<from, to, amount>> of the conversions requested
ConvertInputs == {<<"USD", "ETH", 1000>>, <<"ETH", "USD", 400>>,
                  <<"USD", "BTC", 1>>}

InitConvert ==
    /\ InitStore([u \in AccountIds |-> IF u = "a1" THEN 2000 ELSE 0])
    /\ InitReqs(NConvert)

NextConvert ==
    \/ Tick
    \/ \E r \in 1..NConvert :
          \/ \E c \in ConvertInputs :
                BeginConvert(r, "POST", HeaderOf("a1"), c[1], c[2], "number", c[3], 0)
          \/ ConvertAuth(r)
          \/ ConvertRates(r)
          \/ ConvertOracle(r, TRUE)
          \/ \E f \in Fetches : ConvertOracleJson(r, f)
          \/ ConvertRun(r)
          \/ ConvertCommit(r)

SpecConvert == InitConvert /\ [][NextConvert]_vars

(***************************************************************************)
(* Conversions by a1 at prices that lie on half a cent: the oracle quotes  *)
(* USDC at 1.005 USD and SOL at 0.015 USD.                                 *)
(***************************************************************************)
OracleReplyHalfCent ==
    [OracleReply EXCEPT !.usdc = Priced(1005), !.solana = Priced(15)]

\* <<from, to, amount>> of the conversions requested
CentsInputs == {<<"USD", "USDC", 1000>>, <<"USD", "SOL", 1000>>,
                <<"USD", "ETH", 1000>>}

InitCents ==
    /\ InitStore([u \in AccountIds |-> IF u = "a1" THEN 2000 ELSE 0])
    /\ InitReqs(NCents)

NextCents ==
    \E r \in 1..NCents :
        \/ \E c \in CentsInputs :
              BeginConvert(r, "POST", HeaderOf("a1"), c[1], c[2], "number",
                           c[3], 0)
        \/ ConvertAuth(r)
        \/ ConvertRates(r)
        \/ ConvertOracle(r, TRUE)
        \/ ConvertOracleJson(r, [ok |-> TRUE, d |-> OracleReplyHalfCent])
        \/ ConvertRun(r)
        \/ ConvertCommit(r)

SpecCents == InitCents /\ [][NextCents]_vars

(***************************************************************************)
(* Amounts that are numbers but not whole: typeof amount === "number" and   *)
(* amount > 0 hold for 0.5 and for 1000.5 as they do for 1000.             *)
(***************************************************************************)
\* <<whole part, half units>> of the amounts requested: 0.5, 1000, 1000.5
NumericAmounts == {<<0, 1>>, <<1000, 0>>, <<1000, 1>>}

InitFraction ==
    /\ InitStore([u \in AccountIds |-> IF u = "a1" THEN 2000 ELSE 0])
    /\ InitReqs(NFraction)

NextFraction ==
    \E r \in 1..NFraction :
        \/ \E a \in NumericAmounts :
              BeginDeposit(r, "POST", ADMIN_API_KEY, ADMIN_API_KEY, "a1", "number",
                           a[1], a[2], "USD")
        \/ DepositRun(r)
        \/ DepositCommit(r)
        \/ \E a \in NumericAmounts :
              BeginTransfer(r, "POST", HeaderOf("a1"), "a2", "number", a[1], a[2], "USD")
        \/ TransferAuth(r)
        \/ TransferRun(r)
        \/ TransferCommit(r)
        \/ \E a \in NumericAmounts :
              BeginConvert(r, "POST", HeaderOf("a1"), "USD", "ETH", "number", a[1], a[2])
        \/ ConvertAuth(r)
        \/ ConvertRates(r)
        \/ ConvertOracle(r, TRUE)
        \/ ConvertOracleJson(r, [ok |-> TRUE, d |-> OracleReply])
        \/ ConvertRun(r)
        \/ ConvertCommit(r)

SpecFraction == InitFraction /\ [][NextFraction]_vars

(***************************************************************************)
(* One operation of each kind on a1's account, so that the journal holds    *)
(* entries of every type; the provider's reply may report no tokens at all, *)
(* or a model whose name is a member of Object.prototype.                   *)
(***************************************************************************)
JournalReplies ==
    {OpenAIReply(M_gpt_4o, 0, 0), OpenAIReply(M_gpt_4o, 100, 50),
     OpenAIReply(K_constructor, 100, 50)}

InitJournal ==
    /\ InitStore([u \in AccountIds |-> IF u = "a1" THEN 2000 ELSE 0])
    /\ InitReqs(NJournal)

NextJournal ==
    \E r \in 1..NJournal :
        \/ BeginChat(r, HeaderOf("a1"), M_gpt_4o, FALSE)
        \/ ChatAuth(r)
        \/ ChatPreCheck(r)
        \/ ChatGetKey(r)
        \/ ChatKeyFetched(r, TRUE)
        \/ \E d \in JournalReplies : ChatUpstreamOk(r, d)
        \/ ChatDebitRun(r)
        \/ ChatDebitCommit(r)
        \/ BeginDeposit(r, "POST", ADMIN_API_KEY, ADMIN_API_KEY, "a1", "number", 1000, 0,
                        "USD")
        \/ DepositRun(r)
        \/ DepositCommit(r)
        \/ BeginTransfer(r, "POST", HeaderOf("a1"), "a2", "number", 1000, 0, "USD")
        \/ TransferAuth(r)
        \/ TransferRun(r)
        \/ TransferCommit(r)
        \/ BeginConvert(r, "POST", HeaderOf("a1"), "USD", "ETH", "number", 1000, 0)
        \/ ConvertAuth(r)
        \/ ConvertRates(r)
        \/ ConvertOracle(r, TRUE)
        \/ ConvertOracleJson(r, [ok |-> TRUE, d |-> OracleReply])
        \/ ConvertRun(r)
        \/ ConvertCommit(r)

SpecJournal == InitJournal /\ [][NextJournal]_vars

(***************************************************************************)
(* Failures of what the handlers depend on: the store rejects the chat      *)
(* pre-check read or getAccount's read, the oracle request fails before any *)
(* snapshot was obtained, and convert is called by an identity that has no  *)
(* account, or the store rejects its transaction; getTransactions with and  *)
(* without a cursor while the store may reject its reads; and signup, whose *)
(* four awaits may each reject.                                             *)
(***************************************************************************)
FailureFetches == {[ok |-> TRUE, d |-> OracleReply],
                   [ok |-> FALSE, d |-> OracleReply]}

\* signup requests: a well-formed one, one sent by GET, and ones with no
\* address, a malformed address, a short password, a password that is a number
SignupBody(method, email, passwordType, passwordLen) ==
    [method |-> method, email |-> email, passwordType |-> passwordType,
     passwordLen |-> passwordLen]
SignupBodies ==
    {SignupBody("POST", E_ghost, "string", 8),
     SignupBody("GET", E_ghost, "string", 8),
     SignupBody("POST", <<>>, "string", 8),
     SignupBody("POST", E_ghost, "undefined", 0),
     SignupBody("POST", <<103, 64, 120>>, "string", 8),
     SignupBody("POST", <<103, 32, 64, 120, 46, 105, 111>>, "string", 8),
     SignupBody("POST", <<103, 12, 64, 120, 46, 105, 111>>, "string", 8),
     SignupBody("POST", <<103, 64, 120, 8232, 46, 105, 111>>, "string", 8),
     SignupBody("POST", <<103, 64, 64, 120, 46, 105, 111>>, "string", 8),
     SignupBody("POST", <<103, 64, 120, 46>>, "string", 8),
     SignupBody("POST", E_ghost, "string", 7),
     SignupBody("POST", E_ghost, "number", 8)}

InitFailures ==
    /\ InitStore([u \in AccountIds |-> IF u = "a1" THEN 2000 ELSE 0])
    /\ InitReqs(NFailures)

NextFailures ==
    \E r \in 1..NFailures :
        \/ BeginChat(r, HeaderOf("a1"), M_gpt_4o, FALSE)
        \/ ChatAuth(r)
        \/ ChatPreCheck(r)
        \/ ChatPreCheckFails(r)
        \/ ChatGetKey(r)
        \/ ChatKeyFetched(r, TRUE)
        \/ ChatUpstreamOk(r, OpenAIReply(M_gpt_4o, 100, 50))
        \/ ChatDebitRun(r)
        \/ ChatDebitCommit(r)
        \/ BeginGetAccount(r, HeaderOf("a1"))
        \/ GetAccountAuth(r)
        \/ GetAccountRead(r)
        \/ GetAccountFails(r)
        \/ \E sa \in BOOLEAN : BeginGetTransactions(r, HeaderOf("a1"), sa)
        \/ GetTransactionsAuth(r)
        \/ GetTransactionsCursor(r)
        \/ GetTransactionsRead(r)
        \/ GetTransactionsFails(r)
        \/ \E b \in SignupBodies :
              BeginSignup(r, b.method, b.email, b.passwordType, b.passwordLen)
        \/ \E ok \in BOOLEAN : SignupCreateUser(r, ok, "ghost")
        \/ \E ok \in BOOLEAN : SignupSet(r, ok)
        \/ \E ok \in BOOLEAN : SignupSignIn(r, ok)
        \/ \E ok \in BOOLEAN : SignupTokens(r, ok)
        \/ \E u \in {"a1", "ghost"} :
              BeginConvert(r, "POST", HeaderOf(u), "USD", "ETH", "number", 1000, 0)
        \/ ConvertAuth(r)
        \/ ConvertRates(r)
        \/ \E ok \in BOOLEAN : ConvertOracle(r, ok)
        \/ \E f \in FailureFetches : ConvertOracleJson(r, f)
        \/ ConvertRun(r)
        \/ ConvertCommit(r)
        \/ ConvertStoreError(r)

SpecFailures == InitFailures /\ [][NextFailures]_vars

(***************************************************************************)
(* The oracle client under every outcome of its request: a reply, a later   *)
(* reply, a network failure, an error document, and a reply in which a coin *)
(* has no price, while the clock runs up to MaxAge lifetimes of a snapshot. *)
(***************************************************************************)
MaxAge == 3

\* an error document of the oracle (no coin is reported), and a reply whose
\* BTC entry carries no usd price
OracleReplyError == [status |-> [error_code |-> 429]]
OracleReplyNoBTC == [OracleReply EXCEPT !.bitcoin = Unpriced]

OracleFetches == {[ok |-> TRUE, d |-> OracleReply],
                  [ok |-> TRUE, d |-> OracleReplyLater],
                  [ok |-> FALSE, d |-> OracleReply],
                  [ok |-> TRUE, d |-> OracleReplyError],
                  [ok |-> TRUE, d |-> OracleReplyNoBTC]}

OracleInputs == {<<"USD", "ETH", 1000>>, <<"USD", "BTC", 1000>>}

InitOracle ==
    /\ InitStore([u \in AccountIds |-> IF u = "a1" THEN 2000 ELSE 0])
    /\ InitReqs(NOracle)

NextOracle ==
    \/ Advance(RATE_TTL, MaxAge * RATE_TTL)
    \/ \E r \in 1..NOracle :
          \/ \E c \in OracleInputs :
                BeginConvert(r, "POST", HeaderOf("a1"), c[1], c[2], "number", c[3], 0)
          \/ ConvertAuth(r)
          \/ ConvertRates(r)
          \/ \E ok \in BOOLEAN : ConvertOracle(r, ok)
          \/ \E f \in OracleFetches : ConvertOracleJson(r, f)
          \/ ConvertRun(r)
          \/ ConvertCommit(r)

SpecOracle == InitOracle /\ [][NextOracle]_vars

\* The same, with the scheduling the handlers can count on: a handler that
\* can take a step of its own takes it.  Whether and when the oracle settles
\* a request is up to the oracle, and time need not pass.
OracleFairness ==
    \A r \in 1..NOracle :
        WF_vars(ConvertAuth(r) \/ ConvertRates(r) \/ ConvertRun(r)
                \/ ConvertCommit(r))

SpecOracleLive == SpecOracle /\ OracleFairness

(***************************************************************************)
(* The secret cache: chat completions of a1 on an OpenAI and on a Claude    *)
(* model, which use two secrets, while the clock passes the lifetime of a   *)
(* cached key and the secret store answers or fails.                        *)
(***************************************************************************)
MaxKeyTicks == 1

KeyModels == {M_gpt_4o, M_claude_sonnet_4_20250514}
KeyReplies == {OpenAIReply(M_gpt_4o, 100, 50),
               AnthropicReply(M_claude_sonnet_4_20250514, 100, 50, "end_turn")}

InitKeys ==
    /\ InitStore([u \in AccountIds |-> IF u = "a1" THEN 5000 ELSE 0])
    /\ InitReqs(NKeys)

NextKeys ==
    \/ Advance(CACHE_TTL, MaxKeyTicks * CACHE_TTL)
    \/ \E r \in 1..NKeys :
          \/ \E m \in KeyModels : BeginChat(r, HeaderOf("a1"), m, FALSE)
          \/ ChatAuth(r)
          \/ ChatPreCheck(r)
          \/ ChatGetKey(r)
          \/ \E ok \in BOOLEAN : ChatKeyFetched(r, ok)
          \/ \E d \in KeyReplies : ChatUpstreamOk(r, d)
          \/ ChatDebitRun(r)
          \/ ChatDebitCommit(r)

SpecKeys == InitKeys /\ [][NextKeys]_vars

(***************************************************************************)
(* The cost engine called on its own, as the unit tests call it: a model    *)
(* name of the table, a name outside it, or a name every object inherits,   *)
(* with token counts around the rounding boundaries.                        *)
(***************************************************************************)
M_unknown_model_v99 == <<"u", "n", "k", "n", "o", "w", "n", "-", "m", "o", "d", "e", "l", "-", "v", "9", "9">>

CostModels == DOMAIN PRICING \cup {M_unknown_model_v99} \cup InheritedKeys
CostTokens == {0, 1, 7, 100}

CallCost(r, model, promptTokens, completionTokens) ==
    /\ CanBegin(r)
    /\ rq' = [rq EXCEPT ![r] =
                [IdleReq EXCEPT !.kind = "cost", !.pc = "call",
                                !.body = [model |-> model,
                                          promptTokens |-> promptTokens,
                                          completionTokens |-> completionTokens]]]
    /\ UNCHANGED <<accounts, journal, keyCache, rateCache, rateCacheExp, now>>

CostReturns(r) ==
    /\ rq[r].kind = "cost"
    /\ rq[r].pc = "call"
    /\ LET b == rq[r].body
       IN  rq' = [rq EXCEPT ![r] =
                   [@ EXCEPT !.pc = "done",
                             !.costMicros = calculateCostMicros(
                                 b.model, b.promptTokens, b.completionTokens)]]
    /\ UNCHANGED <<accounts, journal, keyCache, rateCache, rateCacheExp, now>>

InitCost ==
    /\ InitStore([u \in AccountIds |-> 0])
    /\ InitReqs(NCost)

NextCost ==
    \E r \in 1..NCost :
        \/ \E m \in CostModels, p \in CostTokens, c \in CostTokens :
              CallCost(r, m, p, c)
        \/ CostReturns(r)

SpecCost == InitCost /\ [][NextCost]_vars

(***************************************************************************)
(* convertCurrency called on its own, as the unit tests call it: every pair *)
(* of currencies, whole, fractional, zero and negative amounts, a snapshot  *)
(* of the oracle, a snapshot with a price below half a cent, and no rates.  *)
(***************************************************************************)
\* prices that are no whole cents: SOL under half a cent, USDC on half a cent
RatesOffCent ==
    [RateSnapshot(OracleReply) EXCEPT !["SOL"] = 4, !["USDC"] = 1005]
\* the rates argument: a table of prices, or null
PureRates == {[null |-> FALSE, table |-> RateSnapshot(OracleReply)],
              [null |-> FALSE, table |-> RatesOffCent],
              [null |-> FALSE, table |-> RateSnapshot(OracleReplyNoBTC)],
              [null |-> FALSE,
               table |-> [RateSnapshot(OracleReply) EXCEPT !["ETH"] = -2000000]],
              [null |-> TRUE, table |-> EMPTY_BALANCES]}
PureAmounts == {<<-5, 0>>, <<0, 1>>, <<1000, 0>>}

CallConvertCurrency(r, from, to, amount, halves, rates) ==
    /\ CanBegin(r)
    /\ rq' = [rq EXCEPT ![r] =
                [IdleReq EXCEPT !.kind = "convertCurrency", !.pc = "call",
                                !.body = [from |-> from, to |-> to,
                                          amount |-> amount, halves |-> halves,
                                          rates |-> rates]]]
    /\ UNCHANGED <<accounts, journal, keyCache, rateCache, rateCacheExp, now>>

\* the call returns its number (whole part and halves), or throws
ConvertCurrencyReturns(r) ==
    /\ rq[r].kind = "convertCurrency"
    /\ rq[r].pc = "call"
    /\ LET b == rq[r].body
       IN  rq' = [rq EXCEPT ![r] =
                   IF convertCurrencyThrows(b.from, b.to, b.halves, b.rates)
                   THEN [@ EXCEPT !.pc = "threw"]
                   ELSE [@ EXCEPT !.pc = "done",
                                  !.converted = convertCurrency(
                                      b.from, b.to, b.amount, b.rates.table),
                                  !.result = [halves |-> IF b.from = b.to
                                                         THEN b.halves ELSE 0]]]
    /\ UNCHANGED <<accounts, journal, keyCache, rateCache, rateCacheExp, now>>

InitPure ==
    /\ InitStore([u \in AccountIds |-> 0])
    /\ InitReqs(NPure)

NextPure ==
    \E r \in 1..NPure :
        \/ \E f \in Currencies, t \in Currencies, a \in PureAmounts, rt \in PureRates :
              CallConvertCurrency(r, f, t, a[1], a[2], rt)
        \/ ConvertCurrencyReturns(r)

SpecPure == InitPure /\ [][NextPure]_vars

(***************************************************************************)
(* The router: chat completions of a1 on model names of every family, on    *)
(* names that only resemble a family, and on names of none.                 *)
(***************************************************************************)
M_o4_mini == <<"o", "4", "-", "m", "i", "n", "i">>
M_some_unknown_model == <<"s", "o", "m", "e", "-", "u", "n", "k", "n", "o", "w", "n", "-", "m", "o", "d", "e", "l">>
M_GPT_4o == <<"G", "P", "T", "-", "4", "o">>
M_claude == <<"c", "l", "a", "u", "d", "e">>
M_xgpt_4o == <<"x", "g", "p", "t", "-", "4", "o">>

RouteModels ==
    {M_gpt_4o, M_o1_mini, M_o3_mini, M_o4_mini, M_claude_sonnet_4_20250514,
     M_gemini_2_0_flash, M_mistral_small_latest, M_deepseek_ai_DeepSeek_V3,
     M_some_unknown_model, M_GPT_4o, M_claude, M_xgpt_4o}
RouteReplies == {OpenAIReply(M_gpt_4o, 100, 50),
                 OpenAIReply(K_constructor, 100, 50),
                 AnthropicReply(M_claude_sonnet_4_20250514, 100, 50, "end_turn")}

InitRoute ==
    /\ InitStore([u \in AccountIds |-> IF u = "a1" THEN 5000 ELSE 0])
    /\ InitReqs(NRoute)

NextRoute ==
    \E r \in 1..NRoute :
        \/ \E m \in RouteModels : BeginChat(r, HeaderOf("a1"), m, FALSE)
        \/ ChatAuth(r)
        \/ ChatPreCheck(r)
        \/ ChatGetKey(r)
        \/ ChatKeyFetched(r, TRUE)
        \/ \E d \in RouteReplies : ChatUpstreamOk(r, d)
        \/ ChatUpstreamHttpError(r, 429)
        \/ ChatDebitRun(r)
        \/ ChatDebitCommit(r)

SpecRoute == InitRoute /\ [][NextRoute]_vars

(***************************************************************************)
(* Anthropic request translation, called on its own as the unit tests call  *)
(* it.  A message is a role and a content; a content is a string, held as   *)
(* the sequence of its characters, and may be empty.  Only the system and   *)
(* messages fields of the result are modelled: max_tokens, temperature,     *)
(* top_p and stop_sequences are computed from other fields of the body.     *)
(***************************************************************************)
NL == "\n"

\* the truthiness of the variable system: undefined and "" are falsy
SystemTruthy(acc) == acc.defined /\ acc.system # <<>>

\* one turn of the loop over body.messages
TranslateMessage(acc, m) ==
    IF m.role = "system"
    THEN [acc EXCEPT !.defined = TRUE,
                     !.system = IF SystemTruthy(acc)
                                THEN acc.system \o <<NL>> \o m.content
                                ELSE m.content]
    ELSE LET n == Len(acc.filtered)
         IN  IF n > 0 /\ acc.filtered[n].role = m.role
             THEN [acc EXCEPT !.filtered[n].content = @ \o <<NL>> \o m.content]
             ELSE [acc EXCEPT !.filtered = Append(@, [role |-> m.role,
                                                      content |-> m.content])]

RECURSIVE TranslateMessages(_, _)
TranslateMessages(acc, messages) ==
    IF messages = <<>> THEN acc
    ELSE TranslateMessages(TranslateMessage(acc, Head(messages)), Tail(messages))

\* the system and messages fields of the translated request; the system
\* field is set only if (system)
toAnthropicRequest(messages) ==
    LET acc == TranslateMessages(
                   [defined |-> FALSE, system |-> <<>>, filtered |-> <<>>], messages)
    IN  [messages |-> acc.filtered,
         hasSystem |-> SystemTruthy(acc),
         system |-> IF SystemTruthy(acc) THEN acc.system ELSE <<>>]

Roles == {"system", "user", "assistant"}
Contents == {<<>>, <<"a">>, <<"b">>}
Message == [role : Roles, content : Contents]

RECURSIVE MessageLists(_)
MessageLists(n) ==
    IF n = 0 THEN {<<>>}
    ELSE LET shorter == MessageLists(n - 1)
         IN  shorter \cup {Append(l, m) : l \in {x \in shorter : Len(x) = n - 1},
                                          m \in Message}

CallToAnthropicRequest(r, messages) ==
    /\ CanBegin(r)
    /\ rq' = [rq EXCEPT ![r] =
                [IdleReq EXCEPT !.kind = "toAnthropicRequest", !.pc = "call",
                                !.body = [messages |-> messages]]]
    /\ UNCHANGED <<accounts, journal, keyCache, rateCache, rateCacheExp, now>>

ToAnthropicRequestReturns(r) ==
    /\ rq[r].kind = "toAnthropicRequest"
    /\ rq[r].pc = "call"
    /\ rq' = [rq EXCEPT ![r] =
                [@ EXCEPT !.pc = "done",
                          !.result = toAnthropicRequest(rq[r].body.messages)]]
    /\ UNCHANGED <<accounts, journal, keyCache, rateCache, rateCacheExp, now>>

InitTranslate ==
    /\ InitStore([u \in AccountIds |-> 0])
    /\ InitReqs(NTranslate)

NextTranslate ==
    \E r \in 1..NTranslate :
        \/ \E l \in MessageLists(MaxMessages) : CallToAnthropicRequest(r, l)
        \/ ToAnthropicRequestReturns(r)

SpecTranslate == InitTranslate /\ [][NextTranslate]_vars

(***************************************************************************)
(* Anthropic response translation, called on its own as the unit tests call *)
(* it: the stop reasons of the table, other stop reasons, and token counts. *)
(***************************************************************************)
StopReasons ==
    {"end_turn", "stop_sequence", "max_tokens", "tool_use", "refusal",
     "pause_turn", "constructor", "toString", "hasOwnProperty"}
ReportedTokens == {0, 1, 100}

CallFromAnthropicResponse(r, data) ==
    /\ CanBegin(r)
    /\ rq' = [rq EXCEPT ![r] =
                [IdleReq EXCEPT !.kind = "fromAnthropicResponse", !.pc = "call",
                                !.body = data]]
    /\ UNCHANGED <<accounts, journal, keyCache, rateCache, rateCacheExp, now>>

FromAnthropicResponseReturns(r) ==
    /\ rq[r].kind = "fromAnthropicResponse"
    /\ rq[r].pc = "call"
    /\ rq' = [rq EXCEPT ![r] =
                [@ EXCEPT !.pc = "done",
                          !.result = fromAnthropicResponse(rq[r].body)]]
    /\ UNCHANGED <<accounts, journal, keyCache, rateCache, rateCacheExp, now>>

InitResponse ==
    /\ InitStore([u \in AccountIds |-> 0])
    /\ InitReqs(NResponse)

NextResponse ==
    \E r \in 1..NResponse :
        \/ \E stop \in StopReasons, p \in ReportedTokens, c \in ReportedTokens :
              CallFromAnthropicResponse(
                  r, AnthropicReply(M_claude_sonnet_4_20250514, p, c, stop).body)
        \/ FromAnthropicResponseReturns(r)

SpecResponse == InitResponse /\ [][NextResponse]_vars

(***************************************************************************)
(* Concurrent transfers between two funded accounts, in both directions,    *)
(* with amounts the sender can and cannot afford, to a recipient that does  *)
(* not exist, and to a recipient given as an array holding the sender's id. *)
(***************************************************************************)
TransferStart == [u \in AccountIds |-> IF u = "a1" THEN 2000 ELSE 1000]
TransferRoutes ==
    {<<"a1", "a2">>, <<"a2", "a1">>, <<"a1", "ghost">>, <<"a1", JsonArrayOf["a1"]>>}
TransferAmounts == {1000, 1500}

InitTransfers ==
    /\ InitStore(TransferStart)
    /\ InitReqs(NTransfers)

NextTransfers ==
    \E r \in 1..NTransfers :
        \/ \E rt \in TransferRoutes, amt \in TransferAmounts :
              BeginTransfer(r, "POST", HeaderOf(rt[1]), rt[2], "number", amt, 0, "USD")
        \/ TransferAuth(r)
        \/ TransferRun(r)
        \/ TransferCommit(r)

SpecTransfers == InitTransfers /\ [][NextTransfers]_vars

(***************************************************************************)
(* SpecFunds: transfers and conversions for more than the source balance   *)
(* holds, or for what a concurrent request takes first: to an account, to  *)
(* an identity without one, with the recipient given as a JSON array, and  *)
(* by a caller without an account, next to completions of the same agent,  *)
(* one of them billed NaN, and under a store that may reject a transaction.*)
(***************************************************************************)
FundsRoutes ==
    {<<"a1", "a2">>, <<"a2", "a1">>, <<"a1", "ghost">>, <<"ghost", "a1">>,
     <<"a1", JsonArrayOf["a2"]>>, <<"a1", JsonArrayOf["a1"]>>}
FundsAmounts == {1500, 2500}
FundsReplies == {OpenAIReply(M_gpt_4o, 400, 0), OpenAIReply(K_constructor, 100, 50)}

InitFunds ==
    /\ InitStore(TransferStart)
    /\ InitReqs(NFunds)

NextFunds ==
    \E r \in 1..NFunds :
        \/ BeginChat(r, HeaderOf("a1"), M_gpt_4o, FALSE)
        \/ ChatAuth(r)
        \/ ChatPreCheck(r)
        \/ ChatGetKey(r)
        \/ ChatKeyFetched(r, TRUE)
        \/ \E d \in FundsReplies : ChatUpstreamOk(r, d)
        \/ ChatDebitRun(r)
        \/ ChatDebitCommit(r)
        \/ \E rt \in FundsRoutes, amt \in FundsAmounts :
              BeginTransfer(r, "POST", HeaderOf(rt[1]), rt[2], "number", amt, 0, "USD")
        \/ TransferAuth(r)
        \/ TransferRun(r)
        \/ TransferCommit(r)
        \/ TransferStoreError(r)
        \/ \E u \in {"a1", "ghost"}, amt \in FundsAmounts :
              BeginConvert(r, "POST", HeaderOf(u), "USD", "ETH", "number", amt, 0)
        \/ ConvertAuth(r)
        \/ ConvertRates(r)
        \/ ConvertOracle(r, TRUE)
        \/ ConvertOracleJson(r, [ok |-> TRUE, d |-> OracleReply])
        \/ ConvertRun(r)
        \/ ConvertCommit(r)
        \/ ConvertStoreError(r)

SpecFunds == InitFunds /\ [][NextFunds]_vars

(***************************************************************************)
(* SpecOwner: NOwner requests of two funded agents: completions, transfers *)
(* to the other account (named by a string or by an array) and             *)
(* conversions, each under the caller's own bearer token.                  *)
(***************************************************************************)
OwnerRoutes ==
    {<<"a1", "a2">>, <<"a2", "a1">>, <<"a1", JsonArrayOf["a2"]>>,
     <<"a1", JsonArrayOf["a1"]>>, <<"a2", "ghost">>}
OwnerAmounts == {1000, 1500}
OwnerReplies == {OpenAIReply(M_gpt_4o, 100, 50), OpenAIReply(K_constructor, 100, 50)}

InitOwner ==
    /\ InitStore(TransferStart)
    /\ InitReqs(NOwner)

NextOwner ==
    \E r \in 1..NOwner :
        \/ \E u \in AccountIds : BeginChat(r, HeaderOf(u), M_gpt_4o, FALSE)
        \/ ChatAuth(r)
        \/ ChatPreCheck(r)
        \/ ChatGetKey(r)
        \/ ChatKeyFetched(r, TRUE)
        \/ \E d \in OwnerReplies : ChatUpstreamOk(r, d)
        \/ ChatDebitRun(r)
        \/ ChatDebitCommit(r)
        \/ \E rt \in OwnerRoutes, amt \in OwnerAmounts :
              BeginTransfer(r, "POST", HeaderOf(rt[1]), rt[2], "number", amt, 0, "USD")
        \/ TransferAuth(r)
        \/ TransferRun(r)
        \/ TransferCommit(r)
        \/ \E u \in AccountIds, amt \in OwnerAmounts :
              BeginConvert(r, "POST", HeaderOf(u), "USD", "ETH", "number", amt, 0)
        \/ ConvertAuth(r)
        \/ ConvertRates(r)
        \/ ConvertOracle(r, TRUE)
        \/ ConvertOracleJson(r, [ok |-> TRUE, d |-> OracleReply])
        \/ ConvertRun(r)
        \/ ConvertCommit(r)

SpecOwner == InitOwner /\ [][NextOwner]_vars

(***************************************************************************)
(* SpecUpstream: NUpstream completions of one agent whose provider call    *)
(* succeeds, fails with an HTTP status or fails without a response, and    *)
(* whose debit transaction is re-run, refused or rejected by the store.    *)
(***************************************************************************)
\* replies at a cost above zero, at no cost, and at a cost of NaN
UpstreamReplies ==
    {OpenAIReply(M_gpt_4o, 100, 50), OpenAIReply(M_gpt_4o, 0, 0),
     OpenAIReply(K_constructor, 100, 50)}

InitUpstream ==
    /\ InitStore([u \in AccountIds |-> IF u = "a1" THEN 1500 ELSE 0])
    /\ InitReqs(NUpstream)

NextUpstream ==
    \E r \in 1..NUpstream :
        \/ BeginChat(r, HeaderOf("a1"), M_gpt_4o, FALSE)
        \/ ChatAuth(r)
        \/ ChatPreCheck(r)
        \/ ChatGetKey(r)
        \/ ChatKeyFetched(r, TRUE)
        \/ \E d \in UpstreamReplies : ChatUpstreamOk(r, d)
        \/ \E st \in UpstreamErrorStatuses : ChatUpstreamHttpError(r, st)
        \/ ChatUpstreamNetworkError(r)
        \/ ChatDebitRun(r)
        \/ ChatDebitCommit(r)
        \/ ChatDebitStoreError(r)

SpecUpstream == InitUpstream /\ [][NextUpstream]_vars

(***************************************************************************)
(* SpecFrame: NFrame requests of an agent that holds USD and, once it has  *)
(* converted, ETH: completions with every outcome of the pipeline (unknown *)
(* account, rejected token, missing model, secret fetch failure, upstream  *)
(* errors, refused debit) next to conversions of the same account.         *)
(***************************************************************************)
FrameHeaders == {HeaderOf("a1"), HeaderOf("ghost"), H_expired}
FrameModels == {M_gpt_4o, <<>>}

InitFrame ==
    /\ InitStore([u \in AccountIds |-> IF u = "a1" THEN 2000 ELSE 1000])
    /\ InitReqs(NFrame)

NextFrame ==
    \E r \in 1..NFrame :
        \/ \E h \in FrameHeaders, m \in FrameModels : BeginChat(r, h, m, FALSE)
        \/ ChatAuth(r)
        \/ ChatPreCheck(r)
        \/ ChatGetKey(r)
        \/ \E ok \in BOOLEAN : ChatKeyFetched(r, ok)
        \/ \E d \in UpstreamReplies : ChatUpstreamOk(r, d)
        \/ \E st \in UpstreamErrorStatuses : ChatUpstreamHttpError(r, st)
        \/ ChatUpstreamNetworkError(r)
        \/ ChatDebitRun(r)
        \/ ChatDebitCommit(r)
        \/ ChatDebitStoreError(r)
        \/ \E amt \in {1000, 1500} :
              BeginConvert(r, "POST", HeaderOf("a1"), "USD", "ETH", "number", amt, 0)
        \/ ConvertAuth(r)
        \/ ConvertRates(r)
        \/ ConvertOracle(r, TRUE)
        \/ ConvertOracleJson(r, [ok |-> TRUE, d |-> OracleReply])
        \/ ConvertRun(r)
        \/ ConvertCommit(r)

SpecFrame == InitFrame /\ [][NextFrame]_vars

(***************************************************************************)
(* SpecRoundTrip: convertCurrency(b, a, convertCurrency(a, b, x, r), r) on  *)
(* every pair of currencies at the prices of OracleReply, for small        *)
(* amounts and for amounts at and beyond 2^53.                             *)
(***************************************************************************)
\* 2^53 + 2^51 + 42 = 11258999068426282
X_2p53_2p51_42 == BinOfExponents({53, 51, 5, 3, 1})
\* 2^53 - 1, the largest integer below which every integer is a Number
X_MaxSafe == BinOfExponents(0..52)

RoundTripAmounts ==
    {BinOf(1), BinOf(1000), BinOf(123456789), X_MaxSafe, X_2p53_2p51_42}

CallRoundTrip(r, a, b, x, rates) ==
    /\ CanBegin(r)
    /\ rq' = [rq EXCEPT ![r] =
                [IdleReq EXCEPT !.kind = "roundTrip", !.pc = "call",
                                !.body = [a |-> a, b |-> b, x |-> x,
                                          rates |-> rates]]]
    /\ UNCHANGED <<accounts, journal, keyCache, rateCache, rateCacheExp, now>>

RoundTripReturns(r) ==
    /\ rq[r].kind = "roundTrip"
    /\ rq[r].pc = "call"
    /\ LET q == rq[r].body
           there == convertCurrencyBin(q.a, q.b, q.x, q.rates)
       IN  rq' = [rq EXCEPT ![r] =
                   [@ EXCEPT !.pc = "done",
                             !.result = [there |-> there,
                                         back |-> convertCurrencyBin(
                                                    q.b, q.a, there, q.rates)]]]
    /\ UNCHANGED <<accounts, journal, keyCache, rateCache, rateCacheExp, now>>

InitRoundTrip ==
    /\ InitStore([u \in AccountIds |-> 0])
    /\ InitReqs(NRoundTrip)

NextRoundTrip ==
    \E r \in 1..NRoundTrip :
        \/ \E a \in Currencies, b \in Currencies, x \in RoundTripAmounts :
              CallRoundTrip(r, a, b, x, RateSnapshot(OracleReply))
        \/ RoundTripReturns(r)

SpecRoundTrip == InitRoundTrip /\ [][NextRoundTrip]_vars

(***************************************************************************)
(* SpecSeries: deposits to one fresh account in one currency, of amounts   *)
(* up to and beyond 2^53.  Every request is a POST under the configured    *)
(* key with a number amount in a listed currency to the existing account;  *)
(* the requests overlap, the store re-runs a callback whose read went      *)
(* stale and may reject a transaction.  The amounts and the balance of the *)
(* account, beyond the checker's integer range, are binary digits.         *)
(***************************************************************************)
X_2p53 == BinOfExponents({53})

SeriesAmounts == {BinOf(1), BinOf(1000), X_MaxSafe, X_2p53}

\* the request arrives with an amount given as binary digits; method, admin
\* key and body are checked as BeginDeposit checks them (amount <= 0 is
\* amount = 0 for a number without sign)
BeginDepositBig(r, adminHeader, amount) ==
    /\ CanBegin(r)
    /\ LET q == [IdleReq EXCEPT !.kind = "deposit",
                     !.body = [method |-> "POST",
                               envKey |-> ADMIN_API_KEY, adminKey |-> adminHeader,
                               accountId |-> "a1",
                               amountType |-> "number", amount |-> amount,
                               halves |-> 0, currency |-> "USD"]]
       IN  rq' = [rq EXCEPT ![r] =
                 IF ~isAdmin(adminHeader, ADMIN_API_KEY)
                 THEN Respond(q, 403, "admin")
                 ELSE IF amount = BinOf(0)
                 THEN Respond(q, 400, "validate")
                 ELSE [q EXCEPT !.pc = "tx"]]
    /\ UNCHANGED <<accounts, journal, keyCache, rateCache, rateCacheExp, now>>

\* the transaction callback on binary digits: tx.get, cur = bal[currency]
\* || 0, balAfter = cur + amount as Numbers add, tx.update and tx.create
DepositRunBig(r) ==
    /\ rq[r].kind = "deposit"
    /\ rq[r].pc = "tx"
    /\ LET q == [rq[r] EXCEPT !.reads = @ + 1, !.attempts = @ + 1]
           b == q.body
           doc == accounts[b.accountId]
           cur == IF doc.nan[b.currency] THEN BinOf(0)
                  ELSE doc.balances[b.currency]
           balAfter == Plus(cur, b.amount)
       IN  rq' = [rq EXCEPT ![r] =
                 IF ~doc.exists THEN Respond(q, 404, "tx")
                 ELSE [q EXCEPT
                         !.pc = "commit",
                         !.tx = [reads |-> <<ReadOf(b.accountId)>>,
                                 updates |-> <<[uid |-> b.accountId,
                                                currency |-> b.currency,
                                                value |-> balAfter,
                                                halves |-> 0,
                                                nan |-> FALSE]>>,
                                 creates |-> <<WithHalves(
                                                 DepositEntry(b.accountId,
                                                   b.currency, b.amount, cur,
                                                   balAfter),
                                                 0, 0, 0)>>,
                                 after |-> Num(balAfter)]]]
    /\ UNCHANGED <<accounts, journal, keyCache, rateCache, rateCacheExp, now>>

\* the account as signup created it: every balance 0, no entry
InitSeries ==
    /\ accounts = [u \in Uids |->
                     IF u \in AccountIds
                     THEN Doc([EMPTY_BALANCES EXCEPT !["USD"] = BinOf(0)])
                     ELSE MissingDoc]
    /\ journal = <<>>
    /\ keyCache = [s \in SecretNames |-> [cached |-> FALSE, key |-> "", expiry |-> 0]]
    /\ rateCache = [set |-> FALSE, rates |-> [c \in Currencies |-> 0]]
    /\ rateCacheExp = 0
    /\ now = 1
    /\ InitReqs(NSeries)

NextSeries ==
    \E r \in 1..NSeries :
        \/ \E amount \in SeriesAmounts :
              BeginDepositBig(r, ADMIN_API_KEY, amount)
        \/ DepositRunBig(r)
        \/ DepositCommit(r)
        \/ DepositStoreError(r)

SpecSeries == InitSeries /\ [][NextSeries]_vars

(***************************************************************************)
(* Properties.                                                             *)
(***************************************************************************)
\* the llm_usage journal entries written by request r
UsageEntriesOf(r) ==
    {i \in 1..Len(journal) :
        journal[i].req = r /\ journal[i].entry.type = "llm_usage"}

UsageCount ==
    Cardinality({i \in 1..Len(journal) : journal[i].entry.type = "llm_usage"})

\* the number an entry holds in one of its fields amount and balanceAfter
EntryNumber(e, field) == [nan |-> e.nan[field], value |-> e[field]]

RECURSIVE SumUsage(_, _)
SumUsage(u, n) ==
    IF n = 0 THEN 0
    ELSE SumUsage(u, n - 1)
           + (IF journal[n].entry.type = "llm_usage"
                 /\ journal[n].entry.accountId = u
              THEN journal[n].entry.amount ELSE 0)

\* the USD balance account u started with (its seed deposit)
RECURSIVE SumSeed(_, _)
SumSeed(u, n) ==
    IF n = 0 THEN 0
    ELSE SumSeed(u, n - 1)
           + (IF journal[n].req = 0 /\ journal[n].entry.accountId = u
              THEN journal[n].entry.amount ELSE 0)

SeedBalance(u) == SumSeed(u, Len(journal))

CountStatus(st) == Cardinality({r \in DOMAIN rq : rq[r].status = st})

\* C1: in every reachable state, under any interleaving of deposit, transfer,
\* convert and chat-completion requests, every account's balance in every
\* currency is >= 0.
C1_BalancesNonNegative ==
    \A u \in Uids, c \in Currencies :
        /\ ~accounts[u].nan[c]
        /\ accounts[u].balances[c] >= 0

\* the costs the replies of SpecRace produce, all of them numbers
RaceCosts ==
    {calculateCostMicros(d.body.model, d.body.usage.prompt_tokens,
                         d.body.usage.completion_tokens).value :
       d \in RaceReplies}

\* every call that got an upstream reply was priced c
SameCost(c) ==
    \A r \in DOMAIN rq : rq[r].upstreamOk => rq[r].costMicros = Num(c)

\* every call has finished: it was answered, or its handler ended on an
\* error it does not catch
AllFinished == \A r \in DOMAIN rq : rq[r].pc \in {"done", "crashed"}

\* the calls that ended on a rejection by the store: of the pre-check read
\* (not caught by the handler) or of the debit transaction (answered 500)
StoreFailures ==
    Cardinality({r \in DOMAIN rq : rq[r].pc = "crashed" \/ rq[r].status = 500})

\* the outcome of N calls of which f ended on a rejection by the store
RaceOutcomeOf(c, f) ==
    LET B == SeedBalance("a1")
        N == Cardinality(DOMAIN rq)
        k == Min(N - f, B \div c)
    IN  /\ StoredNumber(accounts["a1"], "USD") = Num(B - k * c)
        /\ UsageCount = k
        /\ CountStatus(200) = k
        /\ CountStatus(402) = N - f - k

RaceOutcome(c) == RaceOutcomeOf(c, 0)

\* C2 as stated: for N concurrent chat completions on one account with initial
\* USD balance B and the same per-call cost c > 0, once all calls have finished
\* the balance is B - k*c with k = min(N, floor(B/c)), there are exactly k
\* llm_usage entries, k calls returned 200 and N - k returned 402.
C2_Original ==
    \A c \in RaceCosts : (c > 0 /\ AllFinished /\ SameCost(c)) => RaceOutcome(c)

\* C2 as amended: for N concurrent chat completions on one account with
\* initial USD balance B and the same per-call cost c >= MIN_BALANCE_MICROS,
\* of which f ended on a rejection by the store (of the pre-check read or of
\* the debit transaction), once all calls have finished the balance is
\* B - k*c with k = min(N - f, floor(B/c)), there are exactly k llm_usage
\* entries, k calls returned 200 and N - f - k returned 402.
C2_RaceOutcome ==
    \A c \in RaceCosts :
        (c >= MIN_BALANCE_MICROS /\ AllFinished /\ SameCost(c)) =>
            RaceOutcomeOf(c, StoreFailures)

\* all calls finished at one cost >= the minimum: one was rejected by the
\* store, one was debited, and one lost the race for the last funds after
\* passing its pre-check
C2_Witness ==
    /\ AllFinished
    /\ \E c \in RaceCosts : c >= MIN_BALANCE_MICROS /\ SameCost(c)
    /\ \E r \in DOMAIN rq : rq[r].status = 500 /\ rq[r].stage = "debit-store"
    /\ \E r \in DOMAIN rq : rq[r].status = 402 /\ rq[r].stage = "debit"
    /\ \E r \in DOMAIN rq : rq[r].status = 200 /\ rq[r].writes = 1

\* C3: a chat completion is answered 2xx only once the transaction that
\* debited its cost from the caller's USD balance and appended its llm_usage
\* entry has committed.
\* The committed entry is the request's own: its amount is the cost computed
\* from the reply, its balanceAfter is balanceBefore - amount as JavaScript
\* computes it (NaN when the cost is NaN), and the X-Cost-Micros and
\* X-Balance-Micros headers of the response are those two numbers.
C3_OkOnlyAfterDebit ==
    \A r \in DOMAIN rq :
        (rq[r].kind = "chat" /\ rq[r].status >= 200 /\ rq[r].status < 300) =>
            /\ rq[r].writes = 1
            /\ \E i \in UsageEntriesOf(r) :
                  LET e == journal[i].entry
                  IN  /\ e.accountId = rq[r].uid
                      /\ EntryNumber(e, "amount") = rq[r].costMicros
                      /\ EntryNumber(e, "balanceAfter")
                            = Minus(e.balanceBefore, EntryNumber(e, "amount"))
                      /\ rq[r].out.cost = EntryNumber(e, "amount")
                      /\ rq[r].out.balance = EntryNumber(e, "balanceAfter")

\* one chat completion was answered 200 at a cost above zero and another at a
\* cost of NaN, each after its own commit
C3_Witness ==
    \E r, w \in DOMAIN rq :
        /\ rq[r].kind = "chat" /\ rq[r].status = 200 /\ rq[r].writes = 1
        /\ ~rq[r].costMicros.nan /\ rq[r].costMicros.value > 0
        /\ rq[w].kind = "chat" /\ rq[w].status = 200 /\ rq[w].writes = 1
        /\ rq[w].costMicros.nan

\* C4, for the calls answered 200: every upstream call that returned
\* successfully and whose request was answered 200 results in exactly one
\* llm_usage entry and exactly one decrement of the caller's balance: the
\* entry's amount is a number >= 0, and the balance the commit stored is the
\* number balanceBefore - amount.
C4_ExactlyOnceDebit ==
    [][\A r \in DOMAIN rq :
          ( /\ rq[r].kind = "chat"
            /\ rq[r].upstreamOk
            /\ rq[r].pc # "done"
            /\ rq'[r].pc = "done"
            /\ rq'[r].status = 200 )
          => /\ Len(journal') = Len(journal) + 1
             /\ LET e == journal'[Len(journal')].entry
                    u == rq[r].uid
                IN  /\ journal'[Len(journal')].req = r
                    /\ e.type = "llm_usage"
                    /\ ~e.nan.amount
                    /\ e.amount >= 0
                    /\ e.balanceBefore = BalanceOf(accounts[u], "USD")
                    /\ StoredNumber(accounts'[u], "USD")
                          = Num(e.balanceBefore - e.amount)]_vars

\* C5: an upstream POST is issued only if the pre-check read of that request
\* found the account and a USD balance >= MIN_BALANCE_MICROS; a request whose
\* account is missing (404) or whose balance is below 1000 (402) never
\* reaches the provider.
C5_UpstreamOnlyAfterPreCheck ==
    \A r \in DOMAIN rq :
        rq[r].kind = "chat" =>
            /\ rq[r].upstream > 0 =>
                  /\ rq[r].pre.read
                  /\ rq[r].pre.exists
                  /\ rq[r].pre.usd >= 1000
            /\ (rq[r].pre.read /\ ~rq[r].pre.exists) =>
                  /\ rq[r].status = 404
                  /\ rq[r].upstream = 0
            /\ (rq[r].pre.read /\ rq[r].pre.exists /\ rq[r].pre.usd < 1000) =>
                  /\ rq[r].status = 402
                  /\ rq[r].upstream = 0

\* one request was stopped at the pre-check by a balance below the minimum
\* that another request's debit had left; that other request reached upstream
C5_Witness ==
    \E r, w \in DOMAIN rq :
        /\ rq[r].status = 402 /\ rq[r].stage = "precheck" /\ rq[r].pre.usd > 0
        /\ rq[w].upstream = 1 /\ rq[w].status = 200

\* C6: every llm_usage entry has amount = cost(metadata.model,
\* metadata.promptTokens, metadata.completionTokens), the model and token
\* counts being those of the provider's reply, not those of the request.
C6_BilledFromReply ==
    \A i \in 1..Len(journal) :
        LET e == journal[i].entry
        IN  e.type = "llm_usage" =>
              /\ EntryNumber(e, "amount")
                    = calculateCostMicros(e.metadata.model,
                                          e.metadata.promptTokens,
                                          e.metadata.completionTokens)
              /\ e.metadata.model = rq[journal[i].req].result.model
              /\ e.metadata.promptTokens =
                    rq[journal[i].req].result.usage.prompt_tokens
              /\ e.metadata.completionTokens =
                    rq[journal[i].req].result.usage.completion_tokens

\* an entry billed at the reply's model, which costs more than the requested
\* one, and an entry billed at a reply whose model has no numeric price
C6_Witness ==
    \E i, j \in 1..Len(journal) :
        LET e == journal[i].entry
        IN  /\ e.type = "llm_usage"
            /\ e.metadata.model # rq[journal[i].req].body.model
            /\ ~e.nan.amount
            /\ e.amount > calculateCostMicros(rq[journal[i].req].body.model,
                              e.metadata.promptTokens,
                              e.metadata.completionTokens).value
            /\ journal[j].entry.type = "llm_usage"
            /\ journal[j].entry.nan.amount

\* C7: if the USD balance re-read inside the debit transaction is less than
\* the computed cost, the request is answered 402, balances and journal are
\* unchanged, although the pre-check passed and the upstream call succeeded.
\* The premise is the step in which the transaction's callback reads the
\* account (the request's count of store reads grows) and finds the balance,
\* as the callback takes it (a stored NaN as 0), below a cost that is a number.
C7_DebitRefused ==
    [][\A r \in DOMAIN rq :
          ( /\ rq[r].kind = "chat"
            /\ rq[r].pc = "tx"
            /\ rq'[r].reads = rq[r].reads + 1
            /\ accounts[rq[r].uid].exists
            /\ ~rq[r].costMicros.nan
            /\ BalanceOf(accounts[rq[r].uid], "USD") < rq[r].costMicros.value )
          => /\ rq'[r].pc = "done"
             /\ rq'[r].status = 402
             /\ rq'[r].writes = 0
             /\ accounts' = accounts
             /\ journal' = journal]_vars

\* a request that passed the pre-check and was served upstream was refused
\* by its debit transaction, the balance having been set to NaN meanwhile
C7_Witness ==
    \E r \in DOMAIN rq :
        /\ rq[r].status = 402
        /\ rq[r].stage = "debit"
        /\ rq[r].pre.usd >= MIN_BALANCE_MICROS
        /\ rq[r].upstreamOk
        /\ UsageEntriesOf(r) = {}
        /\ accounts[rq[r].uid].nan["USD"]

\* C8: an upstream failure with an HTTP response is answered with that
\* status, a network or timeout failure with 500; in both cases the request
\* changes no balance and writes no entry, and no entry exists without a
\* successful upstream reply.
C8_UpstreamFailure ==
    /\ \A r \in DOMAIN rq :
          /\ rq[r].upErr = "http" =>
                /\ rq[r].status = rq[r].upStatus
                /\ rq[r].writes = 0
                /\ UsageEntriesOf(r) = {}
          /\ rq[r].upErr = "network" =>
                /\ rq[r].status = 500
                /\ rq[r].writes = 0
                /\ UsageEntriesOf(r) = {}
    /\ \A i \in 1..Len(journal) :
          journal[i].entry.type = "llm_usage" => rq[journal[i].req].upstreamOk

C8_Witness ==
    \E r, w \in DOMAIN rq :
        /\ rq[r].upErr = "http" /\ rq[r].status = 429
        /\ rq[w].upErr = "network" /\ rq[w].status = 500

\* a header that is "Bearer " followed by a token the verifier accepts
Authentic(hdr) == \E u \in Uids : hdr = HeaderOf(u)

BearerKinds == {"chat", "getAccount", "getTransactions", "transfer", "convert"}

TurnedAway(q) ==
    \/ q.kind \in {"transfer", "convert"} /\ q.body.method # "POST"
    \/ q.kind = "chat" /\ q.stage = "parse"

PlusTypes == {"deposit", "transfer_in"}
MinusTypes == {"llm_usage", "transfer_out", "conversion"}

\* C10: every journal entry written by deposit, transfer, convert or chat
\* completion has balanceAfter = balanceBefore + amount for deposit and
\* transfer_in and balanceAfter = balanceBefore - amount for llm_usage,
\* transfer_out and conversion, the three being numbers and balanceBefore
\* being the balance the account held when the transaction that wrote the
\* entry read it.
C10_EntryArithmetic ==
    [][\A i \in (Len(journal) + 1)..Len(journal') :
          LET e == journal'[i].entry
          IN  /\ e.type \in PlusTypes \cup MinusTypes
              /\ ~e.nan.amount
              /\ ~e.nan.balanceAfter
              /\ e.type \in PlusTypes => e.balanceAfter = e.balanceBefore + e.amount
              /\ e.type \in MinusTypes => e.balanceAfter = e.balanceBefore - e.amount
              /\ StoredNumber(accounts[e.accountId], e.currency)
                    = Num(e.balanceBefore)
              /\ StoredNumber(accounts'[e.accountId], e.currency)
                    = Num(e.balanceAfter)]_vars

(***************************************************************************)
(* Transfers.                                                              *)
(***************************************************************************)
\* the journal entries written by request r, in commit order
EntriesBy(r) == SelectSeq(journal, LAMBDA j : j.req = r)

TransferTypes == {"transfer_out", "transfer_in"}

\* C11: every successful transfer writes exactly two journal entries, a
\* transfer_out on the sender and a transfer_in on the recipient, with the
\* same amount and currency, each naming the other party as counterparty;
\* no transfer_out exists without its transfer_in and conversely.
C11_TransferPaired ==
    /\ \A r \in DOMAIN rq :
          rq[r].kind = "transfer" =>
             LET es == EntriesBy(r)
                 b == rq[r].body
             IN  /\ Len(es) = (IF rq[r].status = 200 THEN 2 ELSE 0)
                 /\ Len(es) = 2 =>
                       LET o == es[1].entry
                           i == es[2].entry
                       IN  /\ o.type = "transfer_out"
                           /\ i.type = "transfer_in"
                           /\ o.accountId = rq[r].uid
                           /\ i.accountId = b.toAccountId
                           /\ o.accountId # i.accountId
                           /\ o.amount = b.amount /\ i.amount = o.amount
                           /\ o.currency = b.currency /\ i.currency = o.currency
                           /\ o.metadata.counterparty = i.accountId
                           /\ i.metadata.counterparty = o.accountId
    /\ \A k \in 1..Len(journal) :
          journal[k].entry.type \in TransferTypes =>
             /\ journal[k].req \in DOMAIN rq
             /\ rq[journal[k].req].kind = "transfer"
             /\ Cardinality({m \in 1..Len(journal) :
                               /\ journal[m].req = journal[k].req
                               /\ journal[m].entry.type \in TransferTypes
                               /\ journal[m].entry.type # journal[k].entry.type})
                  = 1

\* transfers in both directions committed, each with its pair of entries
C11_Witness ==
    \E r, w \in DOMAIN rq :
        /\ rq[r].kind = "transfer" /\ rq[r].status = 200 /\ rq[r].uid = "a1"
        /\ rq[w].kind = "transfer" /\ rq[w].status = 200 /\ rq[w].uid = "a2"
        /\ Len(EntriesBy(r)) = 2 /\ Len(EntriesBy(w)) = 2

\* C12: a step of a transfer either changes nothing in the store, or debits
\* the sender by amount, credits the recipient by amount and appends the
\* transfer_out and transfer_in entries, all four together; the entries are
\* committed exactly when both balance writes are.  The recipient is the
\* account whose document the transfer addresses, accounts/<toAccountId>.
C12_TransferAtomic ==
    [][\A r \in DOMAIN rq :
          (rq[r].kind = "transfer" /\ rq'[r] # rq[r]) =>
             \/ accounts' = accounts /\ journal' = journal
             \/ LET b == rq[r].body
                    s == rq[r].uid
                    t == TemplateString(b.toAccountId)
                    c == b.currency
                IN  /\ StoredNumber(accounts'[s], c)
                          = Num(BalanceOf(accounts[s], c) - b.amount)
                    /\ StoredNumber(accounts'[t], c)
                          = Num(BalanceOf(accounts[t], c) + b.amount)
                    /\ \A u \in Uids, d \in Currencies :
                          (d # c \/ u \notin {s, t}) =>
                             StoredNumber(accounts'[u], d)
                                = StoredNumber(accounts[u], d)
                    /\ Len(journal') = Len(journal) + 2
                    /\ SubSeq(journal', 1, Len(journal)) = journal
                    /\ journal'[Len(journal) + 1].entry.type = "transfer_out"
                    /\ journal'[Len(journal) + 2].entry.type = "transfer_in"
                    /\ journal'[Len(journal) + 1].req = r
                    /\ journal'[Len(journal) + 2].req = r]_vars


\* the step in which the transaction callback of transfer or convert r reads
\* its documents and finds the source balance (an absent key or a stored NaN
\* as 0) less than amount
ReadsTooLittle(r) ==
    /\ rq[r].kind \in {"transfer", "convert"}
    /\ rq[r].pc = "tx"
    /\ rq'[r].reads > rq[r].reads
    /\ LET c == IF rq[r].kind = "transfer" THEN rq[r].body.currency
                ELSE rq[r].body.from
       IN  Less(BalanceOf(accounts[rq[r].uid], c),
                HalvesOf(accounts[rq[r].uid], c),
                rq[r].body.amount, rq[r].body.halves)

\* the request is answered st and the store is as it was
RefusedWith(r, st) ==
    /\ rq'[r].pc = "done"
    /\ rq'[r].status = st
    /\ rq'[r].writes = 0
    /\ accounts' = accounts
    /\ journal' = journal

\* the account documents the transaction of r reads exist
PartiesExist(r) ==
    /\ accounts[rq[r].uid].exists
    /\ rq[r].kind = "transfer" =>
          accounts[TemplateString(rq[r].body.toAccountId)].exists

C14_NotFound404 ==
    \A r \in DOMAIN rq :
        ( /\ rq[r].kind = "transfer"
          /\ rq[r].pc = "done"
          /\ rq[r].stage = "tx"
          /\ ~accounts[rq[r].uid].exists \/ ~accounts[rq[r].body.toAccountId].exists )
        => /\ rq[r].status = 404
           /\ rq[r].writes = 0
           /\ EntriesBy(r) = <<>>

\* the five currency codes of the bank
ListedCurrencies == {"USD", "USDC", "ETH", "BTC", "SOL"}

\* the request was sent by POST, the method of the three endpoints
Posted(q) == q.body.method = "POST"

\* the request's admin key or bearer token was accepted
Authorized(q) ==
    IF q.kind = "deposit"
    THEN /\ q.body.envKey \notin {NoVal, Str("")}
         /\ q.body.adminKey = q.body.envKey
    ELSE Authentic(q.hdr)

\* the body of request q is one C17 lists
Malformed(q) ==
    \/ q.body.amountType # "number"
    \/ q.body.amount < 0
    \/ q.body.amount = 0 /\ q.body.halves = 0
    \/ q.kind \in {"deposit", "transfer"} /\ q.body.currency \notin ListedCurrencies
    \/ q.kind = "transfer" /\ q.hdr = HeaderOf(TemplateString(q.body.toAccountId))
    \/ q.kind = "convert" /\ q.body.from \notin ListedCurrencies
    \/ q.kind = "convert" /\ q.body.to \notin ListedCurrencies
    \/ q.kind = "convert" /\ q.body.from = q.body.to

\* C17: deposit, transfer and convert answer 400 and perform no store read or
\* write when amount is missing, is not a number or is <= 0, when a currency
\* is not one of USD, USDC, ETH, BTC, SOL, when the transfer recipient equals
\* the sender (the account the transfer addresses, accounts/<toAccountId>, is
\* the sender's), or when convert's from equals its to (the request being a
\* POST whose admin key or bearer token was accepted).
C17_Validation ==
    \A r \in DOMAIN rq :
        ( /\ rq[r].kind \in {"deposit", "transfer", "convert"}
          /\ Posted(rq[r])
          /\ rq[r].pc # "auth"
          /\ Authorized(rq[r])
          /\ Malformed(rq[r]) )
        => /\ rq[r].pc = "done"
           /\ rq[r].status = 400
           /\ rq[r].reads = 0
           /\ rq[r].writes = 0
           /\ EntriesBy(r) = <<>>


(***************************************************************************)
(* Deposits.                                                               *)
(***************************************************************************)
\* the sum of the integers in the sequence s
RECURSIVE BinSum(_)
BinSum(s) == IF s = <<>> THEN BinOf(0) ELSE BinAdd(Head(s), BinSum(Tail(s)))

\* C15: a deposit with the correct admin key, an existing account, a
\* supported currency and amount > 0 increases that balance by exactly amount,
\* appends exactly one deposit entry with that amount and returns the new
\* balance; after any sequence of such deposits on a fresh account the
\* balance is the sum of the deposited amounts.
C15_Deposit ==
    /\ accounts["a1"].balances["USD"]
         = BinSum([i \in 1..Len(journal) |-> journal[i].entry.amount])
    /\ \A i \in 1..Len(journal) :
         LET e == journal[i].entry
         IN  /\ e.type = "deposit"
             /\ e.amount = rq[journal[i].req].body.amount
             /\ e.balanceAfter = BinAdd(e.balanceBefore, e.amount)
    /\ \A r \in DOMAIN rq :
         rq[r].kind = "deposit" =>
           IF rq[r].status = 200
           THEN /\ Len(EntriesBy(r)) = 1
                /\ rq[r].writes = 1
                /\ rq[r].out.balance = Num(EntriesBy(r)[1].entry.balanceAfter)
           ELSE EntriesBy(r) = <<>> /\ rq[r].writes = 0

\* the balance account u had before the first request
InitialBalance(u, c) == IF c = "USD" THEN SeedBalance(u) ELSE 0

\* the request carries no key that deposit may accept: there is no
\* configured key, no header, or the header is not the configured key
KeyRefused(q) ==
    \/ q.body.envKey \in {NoVal, Str("")}
    \/ q.body.adminKey = NoVal
    \/ q.body.adminKey # q.body.envKey

\* no balance was changed and no entry appended but by a deposit whose header
\* is exactly equal to the configured ADMIN_API_KEY
OnlyUnderKey ==
    /\ \A k \in 1..Len(journal) :
          journal[k].req \in DOMAIN rq => ~KeyRefused(rq[journal[k].req])
    /\ \A u \in AccountIds, c \in Currencies :
          StoredNumber(accounts[u], c) # Num(InitialBalance(u, c))
             => \E k \in 1..Len(journal) :
                   /\ journal[k].req \in DOMAIN rq
                   /\ journal[k].entry.accountId = u
                   /\ journal[k].entry.currency = c

\* C16 as stated: deposit changes a balance or appends a journal entry only
\* when the X-Admin-Key header is exactly equal to ADMIN_API_KEY; for every
\* other header value, a missing header or an unset ADMIN_API_KEY it answers
\* 403 and no balance change or journal entry results.
C16_Original ==
    /\ \A r \in DOMAIN rq :
          (rq[r].kind = "deposit" /\ KeyRefused(rq[r]))
          => /\ rq[r].pc = "done"
             /\ rq[r].status = 403
             /\ rq[r].reads = 0
             /\ rq[r].writes = 0
    /\ OnlyUnderKey

\* C16 as amended: deposit changes a balance or appends a journal entry only
\* when the X-Admin-Key header is exactly equal to a configured, non-empty
\* ADMIN_API_KEY; for any other header value, a missing header or an unset
\* ADMIN_API_KEY a POST is answered 403, a request of any other method is
\* answered 405 whatever its key, and neither reads nor writes the store.
C16_AdminOnly ==
    /\ \A r \in DOMAIN rq :
          (rq[r].kind = "deposit" /\ KeyRefused(rq[r]))
          => /\ rq[r].pc = "done"
             /\ rq[r].status = IF Posted(rq[r]) THEN 403 ELSE 405
             /\ rq[r].reads = 0
             /\ rq[r].writes = 0
    /\ \A r \in DOMAIN rq :
          (rq[r].kind = "deposit" /\ ~Posted(rq[r]))
          => /\ rq[r].pc = "done"
             /\ rq[r].status = 405
             /\ rq[r].reads = 0
             /\ rq[r].writes = 0
    /\ OnlyUnderKey

\* a POST with an injection payload was refused with 403 and a request
\* without a header sent by GET with 405, while a deposit under the
\* configured key was credited
C16_Witness ==
    \E w, g, m \in DOMAIN rq :
        /\ rq[w].status = 403 /\ Posted(rq[w])
        /\ rq[w].body.adminKey = K_injection
        /\ rq[g].status = 200 /\ rq[g].writes = 1
        /\ ~KeyRefused(rq[g])
        /\ rq[m].status = 405 /\ rq[m].body.adminKey = NoVal


(***************************************************************************)
(* Conversions.                                                            *)
(***************************************************************************)
\* the request has a rate snapshot: getExchangeRates returned and the quote
\* was computed from it
Quoted(q) ==
    /\ q.kind = "convert"
    /\ \/ q.pc \in {"tx", "commit"}
       \/ q.pc = "done" /\ q.stage \in {"rates", "tx", "commit"}

\* round(100 * rate) for a price of mills thousandths of a dollar, read as
\* the decimal number the oracle wrote, halves rounded up
DecimalCents(mills) == (mills + 5) \div 10

\* round(100 * rate) read as the exact product of 100 and the Number nearest
\* to the price, halves rounded up: RoundCents without the rounding of the
\* product to a Number
NumberCents(mills) ==
    LET places == 65
        scaled == [i \in 1..places |-> 0] \o BinOf(mills)
        q == BinDiv(scaled, RateScale)
        inexact == BinTrim(BinMulAdd(q, RateScale, 0)) # scaled
        rate == BinNumber(<<IF inexact THEN 1 ELSE 0>> \o q)
        product == BinTrim(BinMulAdd(rate, 100, 0))
        twice == SubSeq(product, places + 1, Len(product))
    IN  BinToInt(Tail(BinMulAdd(twice, 1, 1)))

Roundings == {"decimal", "number"}

StatedCents(rounding, mills) ==
    IF rounding = "decimal" THEN DecimalCents(mills) ELSE NumberCents(mills)

\* floor(amount * round(100 * rate[from]) * u_to
\*         / (u_from * round(100 * rate[to])))
StatedQuote(rounding, from, to, amount, rates) ==
    LET fromCents == StatedCents(rounding, rates[from])
        toCents == StatedCents(rounding, rates[to])
        gu == GCD(UNITS[to], UNITS[from])
        gc == GCD(fromCents, toCents)
    IN  (amount * (fromCents \div gc) * (UNITS[to] \div gu))
          \div ((UNITS[from] \div gu) * (toCents \div gc))

\* C18: every conversion entry records fromAmount = the amount requested and
\* toAmount = floor(amount * round(100 * rate[from]) * u_to
\* / (u_from * round(100 * rate[to]))), with the prices of the snapshot the
\* request fetched before its transaction was opened.  round is rounding to
\* the nearest whole number, of the price as the oracle wrote it or of the
\* Number it parses to: one of the two readings fits all conversions.
C18_Convert ==
    \E rounding \in Roundings :
        \A i \in 1..Len(journal) :
            LET e == journal[i].entry
                q == rq[journal[i].req]
            IN  e.type = "conversion"
                  => /\ e.amount = q.body.amount
                     /\ e.metadata.fromAmount = q.body.amount
                     /\ e.metadata.toAmount =
                          StatedQuote(rounding, q.body.from, q.body.to,
                                      q.body.amount, q.rates)

\* C19: a conversion whose converted amount is zero or less is answered 400
\* at the quote, before the transaction is opened: the request has read and
\* written nothing, and no attempt of the transaction was made.  Hence no
\* conversion entry credits a zero or negative amount, and every conversion
\* answered 200 credited a positive amount.
C19_TooSmall ==
    /\ \A r \in DOMAIN rq :
         LET q == rq[r]
             b == q.body
         IN  Quoted(q) =>
               /\ convertCurrency(b.from, b.to, b.amount, q.rates) <= 0
                    => /\ q.pc = "done" /\ q.status = 400 /\ q.stage = "rates"
                       /\ q.reads = 0 /\ q.writes = 0 /\ q.attempts = 0
                       /\ EntriesBy(r) = <<>>
               /\ q.status = 200 => q.converted > 0
    /\ \A i \in 1..Len(journal) :
         journal[i].entry.type = "conversion"
            => journal[i].entry.metadata.toAmount > 0

\* 1 micro-USD buys less than one satoshi and is refused, and so is a
\* conversion of ETH that the oracle quotes at -0.001 USD, which rounds to 0
\* cents; the account is as it was
C19_Witness ==
    /\ \E r \in DOMAIN rq :
         /\ rq[r].kind = "convert" /\ rq[r].status = 400
         /\ rq[r].stage = "rates"
         /\ rq[r].body.amount = 1 /\ rq[r].body.to = "BTC"
         /\ convertCurrency("USD", "BTC", 1, rq[r].rates) = 0
    /\ \E r \in DOMAIN rq :
         /\ rq[r].kind = "convert" /\ rq[r].status = 400
         /\ rq[r].stage = "rates"
         /\ rq[r].body.from = "ETH" /\ rq[r].rates["ETH"] < 0
         /\ convertCurrency("ETH", "USD", rq[r].body.amount, rq[r].rates) = 0
    /\ accounts["a1"].balances = [EMPTY_BALANCES EXCEPT !["USD"] = 2000]
    /\ \A i \in 1..Len(journal) : journal[i].req = 0


(***************************************************************************)
(* Whole balances.                                                         *)
(***************************************************************************)
\* C20: every balance of every account is a whole number of smallest units
\* in every reachable state, whatever numeric amount deposit, transfer and
\* convert are asked to move.
C20_IntegerBalances ==
    \A u \in Uids, c \in Currencies : HalvesOf(accounts[u], c) = 0


(***************************************************************************)
(* Journal amounts.                                                        *)
(***************************************************************************)
\* C21: every journal entry of every type (deposit, llm_usage, transfer_out,
\* transfer_in, conversion) has amount > 0.
C21_AmountsPositive ==
    \A i \in 1..Len(journal) :
        /\ ~journal[i].entry.nan.amount
        /\ ~NotPositive(journal[i].entry.amount, journal[i].entry.halves.amount)


(***************************************************************************)
(* Failures.                                                               *)
(***************************************************************************)
\* C22: every request ends with a response: no handler ends without having
\* answered, whether the store rejects the chat pre-check read or
\* getAccount's read, the oracle fails while no snapshot exists, or the
\* account is found missing inside the convert transaction; the failures that
\* are not otherwise classified are answered 500.
C22_AlwaysAnswered ==
    \A r \in DOMAIN rq :
        /\ rq[r].pc # "crashed"
        /\ ( /\ rq[r].pc = "done" /\ rq[r].kind = "convert"
             /\ rq[r].uid = "ghost" /\ ~accounts["ghost"].exists )
              => rq[r].status \in {404, 500}


(***************************************************************************)
(* The rate oracle client.                                                 *)
(***************************************************************************)
\* the handler of q waits for the oracle: for the response, or for its body
AtOracle(q) == q.pc \in {"oracle", "json"}

\* the handler of q ended on an error that nothing caught
Escaped(q) ==
    q.pc = "crashed" \/ (q.pc = "done" /\ q.stage = "uncaught")

\* C23: getExchangeRates returns the cached snapshot without asking the
\* oracle while the snapshot is within its TTL; when the request to the
\* oracle fails or its reply is malformed, the cached snapshot and its expiry
\* stay as they were, the caller gets the previous snapshot if there is one
\* and the failure is raised only if there is none; and USD is 1 in every
\* snapshot.
C23_RateCache ==
    [][/\ rateCache'.set => rateCache'.rates["USD"] = RateScale
       /\ \A r \in DOMAIN rq :
            LET q == rq[r]
                q2 == rq'[r]
            IN  /\ ( /\ q.kind = "convert" /\ q.pc = "rates" /\ q2.pc # "rates"
                     /\ rateCache.set /\ now < rateCacheExp )
                      => /\ ~AtOracle(q2)
                         /\ Quoted(q2) /\ q2.rates = rateCache.rates
                         /\ UNCHANGED <<rateCache, rateCacheExp>>
                /\ ( /\ q.kind = "convert" /\ AtOracle(q)
                     /\ q2.fetched \in {"failed", "malformed"} )
                      => /\ UNCHANGED <<rateCache, rateCacheExp>>
                         /\ rateCache.set
                              => Quoted(q2) /\ q2.rates = rateCache.rates
                         /\ ~rateCache.set => Escaped(q2)
    ]_vars

\* C24: when the request to the oracle fails, a conversion is priced with
\* the snapshot left in the cache only if that snapshot is at most one TTL
\* old (it was stored at rateCacheExp - RATE_TTL).
C24_StaleWithinTTL ==
    [][\A r \in DOMAIN rq :
         ( /\ rq[r].kind = "convert" /\ AtOracle(rq[r])
           /\ rq'[r].fetched \in {"failed", "malformed"}
           /\ UNCHANGED <<rateCache, rateCacheExp>>
           /\ Quoted(rq'[r]) )
            => now - (rateCacheExp - RATE_TTL) <= RATE_TTL
    ]_vars


\* C25: a convert request is answered even if the oracle never answers: a
\* request that waits for the oracle stops waiting (the fetch is abandoned
\* after a short timeout) and goes on with the stale snapshot or fails.
C25_OracleAbandoned ==
    \A r \in 1..NOracle : AtOracle(rq[r]) ~> ~AtOracle(rq[r])


(***************************************************************************)
(* The secret cache.                                                       *)
(***************************************************************************)
SecretOf(q) == PROVIDERS[q.provider].secret

\* C26: getApiKey(name) returns the cached key without asking the secret
\* store whenever name has an entry whose expiry lies in the future;
\* otherwise (no entry, or the entry has expired) it asks the secret store
\* and stores the fetched key under name with expiry = now + 5 minutes,
\* leaving the other entries alone; and whatever calls run concurrently, the
\* key a request gets, and the key an entry holds, was fetched for that name.
C26_KeyCache ==
    [][/\ \A n \in SecretNames : keyCache'[n].cached => keyCache'[n].key = n
       /\ \A r \in DOMAIN rq :
            LET q == rq[r]
                q2 == rq'[r]
                n == SecretOf(q)
            IN  /\ (q2.kind = "chat" /\ q2.apiKey # "")
                      => q2.apiKey = SecretOf(q2)
                /\ (q.kind = "chat" /\ q.pc = "key" /\ q2.pc # "key")
                      => IF keyCache[n].cached /\ now < keyCache[n].expiry
                         THEN /\ q2.pc = "upstream"
                              /\ q2.apiKey = keyCache[n].key
                              /\ UNCHANGED keyCache
                         ELSE /\ q2.pc = "secret"
                              /\ UNCHANGED keyCache
                /\ (q.kind = "chat" /\ q.pc = "secret" /\ q2.pc = "upstream")
                      => /\ keyCache'[n] = [cached |-> TRUE, key |-> q2.apiKey,
                                            expiry |-> now + 5 * 60 * 1000]
                         /\ \A m \in SecretNames \ {n} :
                              keyCache'[m] = keyCache[m]
    ]_vars

\* the first request was served with the OpenAI key fetched for it; the
\* entry then expired, and the second request fetched the key again and
\* stored it with a new expiry
C26_Witness ==
    /\ now = CACHE_TTL + 1
    /\ keyCache["OPENAI_API_KEY"].cached
    /\ keyCache["OPENAI_API_KEY"].expiry = now + CACHE_TTL
    /\ ~keyCache["ANTHROPIC_API_KEY"].cached
    /\ rq[1].status = 200 /\ rq[1].apiKey = "OPENAI_API_KEY"
    /\ rq[2].pc = "upstream" /\ rq[2].apiKey = "OPENAI_API_KEY"

\* C27: when fetching the provider's key fails the request is answered 503:
\* it has made no upstream call, changed no balance and written no journal
\* entry, and the failing fetch leaves the secret cache as it was, so that
\* the next request for that secret asks the secret store again.
C27_KeyFailure ==
    [][\A r \in DOMAIN rq :
         LET q == rq[r]
             q2 == rq'[r]
         IN  /\ (q.kind = "chat" /\ q.pc = "secret" /\ q2.pc # "secret")
                  => \/ q2.pc = "upstream" /\ keyCache'[SecretOf(q)].cached
                     \/ /\ q2.pc = "done" /\ q2.status = 503
                        /\ UNCHANGED <<keyCache, accounts, journal>>
             /\ (q2.kind = "chat" /\ q2.status = 503)
                  => /\ q2.stage = "key"
                     /\ q2.upstream = 0 /\ q2.writes = 0 /\ q2.attempts = 0
                     /\ \A i \in 1..Len(journal') : journal'[i].req # r
    ]_vars

\* the first request was refused 503 and left no entry behind; the second,
\* for the same secret, found none, fetched it and was served
C27_Witness ==
    /\ rq[1].kind = "chat" /\ rq[1].status = 503
    /\ rq[1].provider = "openai"
    /\ rq[2].kind = "chat" /\ rq[2].provider = "openai"
    /\ rq[2].status = 200
    /\ keyCache["OPENAI_API_KEY"].cached
    /\ \E i \in 1..Len(journal) : journal[i].req = 2
    /\ \A i \in 1..Len(journal) : journal[i].req # 1


\* C28: a chat-completion request of an authenticated caller whose model
\* routes to anthropic and whose body carries tools never gets past the
\* head of the handler: it makes no account read, no key lookup and no
\* upstream call, writes nothing, leaves no journal entry, and is answered
\* 400; the step that answers it changes no account and no journal entry.
C28_AnthropicTools ==
    [][\A r \in DOMAIN rq :
         LET q == rq[r]
             q2 == rq'[r]
         IN  (/\ q2.kind = "chat"
              /\ q2.body.model # <<>>
              /\ detectProvider(q2.body.model) = "anthropic"
              /\ q2.body.tools
              /\ authenticate(q2.hdr) # NoUser)
             => /\ q2.pc \in {"auth", "done"}
                /\ q2.pc = "done" => q2.status = 400 /\ q2.stage = "validate"
                /\ q2.upstream = 0 /\ q2.reads = 0 /\ q2.writes = 0
                /\ q2.apiKey = ""
                /\ \A i \in 1..Len(journal') : journal'[i].req # r
                /\ q # q2 => UNCHANGED <<accounts, journal, keyCache>>
    ]_vars

\* a Claude request with tools refused 400 next to the same caller's Claude
\* request without tools, which was served and charged
C28_Witness ==
    /\ rq[1].kind = "chat" /\ rq[1].pc = "done"
    /\ rq[1].body.model = M_claude_sonnet_4_20250514 /\ rq[1].body.tools
    /\ rq[1].uid = "a1" /\ rq[1].status = 400
    /\ rq[2].kind = "chat" /\ rq[2].pc = "done"
    /\ rq[2].body.model = M_claude_sonnet_4_20250514 /\ ~rq[2].body.tools
    /\ rq[2].uid = "a1" /\ rq[2].status = 200
    /\ \E i \in 1..Len(journal) : journal[i].req = 2


(***************************************************************************)
(* The cost engine.                                                        *)
(***************************************************************************)
\* The exact cost p * input + c * output microdollars per million, as its
\* whole microdollars and the millionths left over (which may exceed 10^6).
CostWhole(row, p, c) == p * (row.input \div 1000000) + c * (row.output \div 1000000)
CostMillionths(row, p, c) == p * (row.input % 1000000) + c * (row.output % 1000000)

\* C29: calculateCostMicros(model, p, c) is ceil((p * input + c * output) /
\* 10^6) with the rates of the model's row in the pricing table, or of the
\* default row (gpt-4o's) for every model that is not in the table: a
\* non-negative integer, 0 for zero tokens, and never less than the exact
\* cost.
C29_CostFormula ==
    \A r \in DOMAIN rq :
      (rq[r].kind = "cost" /\ rq[r].pc = "done") =>
        LET b == rq[r].body
            row == IF b.model \in DOMAIN PRICING THEN PRICING[b.model]
                   ELSE PRICING[M_gpt_4o]
            whole == CostWhole(row, b.promptTokens, b.completionTokens)
            rest == CostMillionths(row, b.promptTokens, b.completionTokens)
            cost == rq[r].costMicros.value
        IN  /\ ~rq[r].costMicros.nan
            /\ cost \in Nat
            /\ (cost - whole) * 1000000 >= rest
            /\ (cost - whole - 1) * 1000000 < rest
            /\ (b.promptTokens = 0 /\ b.completionTokens = 0) => cost = 0


(***************************************************************************)
(* convertCurrency.                                                        *)
(***************************************************************************)
PositiveRates(rates) ==
    /\ ~rates.null
    /\ \A c \in Currencies : c \in DOMAIN rates.table /\ rates.table[c] > 0

\* C30: convertCurrency(c, c, x, r) returns x whatever the currency, the
\* amount (whole or fractional, positive or not) and the rates (even none);
\* and a call with a positive amount and positive rates that returns,
\* returns a number that is not negative.
C30_ConvertCurrency ==
    \A r \in DOMAIN rq :
      (rq[r].kind = "convertCurrency" /\ rq[r].pc \in {"done", "threw"}) =>
        LET q == rq[r]
            b == q.body
        IN  /\ b.from = b.to
                 => /\ q.pc = "done"
                    /\ q.converted = b.amount
                    /\ q.result.halves = b.halves
            /\ (/\ q.pc = "done"
                /\ ~NotPositive(b.amount, b.halves)
                /\ PositiveRates(b.rates))
                 => q.converted >= 0

\* $0.001 of USD converted at $2000 per ETH: 500 units of ETH
C30_Witness ==
    /\ rq[1].kind = "convertCurrency" /\ rq[1].pc = "done"
    /\ rq[1].body.from = "USD" /\ rq[1].body.to = "ETH"
    /\ rq[1].body.amount = 1000 /\ rq[1].body.halves = 0
    /\ PositiveRates(rq[1].body.rates)
    /\ rq[1].converted = 500


(***************************************************************************)
(* The router.                                                             *)
(***************************************************************************)
\* the provider whose endpoint is the given URL
ProviderAt(url) == CHOOSE p \in DOMAIN PROVIDERS : PROVIDERS[p].baseUrl = url

\* the classification by prefix, in the order the specification gives it
Classified(model) ==
    IF \E pre \in {<<"g", "p", "t", "-">>, <<"o", "1">>, <<"o", "3">>, <<"o", "4">>} :
         StartsWith(model, pre)
    THEN "openai"
    ELSE IF StartsWith(model, <<"c", "l", "a", "u", "d", "e", "-">>) THEN "anthropic"
    ELSE IF StartsWith(model, <<"g", "e", "m", "i", "n", "i", "-">>) THEN "google"
    ELSE IF StartsWith(model, <<"m", "i", "s", "t", "r", "a", "l", "-">>) THEN "mistral"
    ELSE "together"

\* C31: detectProvider classifies every model string by prefix: openai for
\* gpt-, o1, o3 or o4, else anthropic for claude-, else google for gemini-,
\* else mistral for mistral-, else together; the request is posted to that
\* provider's endpoint with that provider's key, and the provider named in
\* X-Often-Provider and in the journal entry's metadata is the one the
\* request was posted to.
C31_Routing ==
    \A r \in DOMAIN rq :
      LET q == rq[r]
      IN  (q.kind = "chat" /\ q.provider # "") =>
            /\ q.provider = Classified(q.body.model)
            /\ q.provider = detectProvider(q.body.model)
            /\ q.apiKey # "" => q.apiKey = PROVIDERS[Classified(q.body.model)].secret
            /\ q.upstream > 0 =>
                 /\ q.sentTo = PROVIDERS[Classified(q.body.model)].baseUrl
                 /\ q.status = 200 => q.out.provider = ProviderAt(q.sentTo)
                 /\ \A i \in 1..Len(journal) :
                      journal[i].req = r =>
                        journal[i].entry.metadata.provider = ProviderAt(q.sentTo)

\* an o4 request posted to OpenAI with OpenAI's key and answered 200: the
\* header and the journal entry both name openai
C31_Witness ==
    /\ rq[1].kind = "chat"
    /\ rq[1].body.model = M_o4_mini /\ rq[1].status = 200
    /\ rq[1].sentTo = PROVIDERS["openai"].baseUrl
    /\ rq[1].apiKey = PROVIDERS["openai"].secret
    /\ rq[1].out.provider = "openai"
    /\ \E i \in 1..Len(journal) :
         journal[i].req = 1 /\ journal[i].entry.metadata.provider = "openai"


(***************************************************************************)
(* The translation layer.                                                  *)
(***************************************************************************)
RECURSIVE JoinNL(_)
JoinNL(contents) ==
    IF contents = <<>> THEN <<>>
    ELSE IF Len(contents) = 1 THEN contents[1]
    ELSE contents[1] \o <<"\n">> \o JoinNL(Tail(contents))

RECURSIVE ContentsWhere(_, _)
ContentsWhere(messages, isSystem) ==
    IF messages = <<>> THEN <<>>
    ELSE LET rest == ContentsWhere(Tail(messages), isSystem)
         IN  IF (Head(messages).role = "system") = isSystem
             THEN <<Head(messages)>> \o rest ELSE rest

ContentsOf(messages) == [i \in 1..Len(messages) |-> messages[i].content]

\* the maximal runs of same-role messages, each joined into one message
RECURSIVE Runs(_)
Runs(messages) ==
    IF messages = <<>> THEN <<>>
    ELSE LET role == messages[1].role
             ends == {k \in 1..Len(messages) :
                        /\ \A i \in 1..k : messages[i].role = role
                        /\ k = Len(messages) \/ messages[k + 1].role # role}
             k == CHOOSE e \in ends : TRUE
         IN  <<[role |-> role,
                content |-> JoinNL(ContentsOf(SubSeq(messages, 1, k)))]>>
               \o Runs(SubSeq(messages, k + 1, Len(messages)))

\* C32: toAnthropicRequest puts the newline-joined contents of all
\* system-role messages, in their order, into the system field (an absent
\* field is read as the empty text); the output messages hold no system
\* message and no two adjacent messages of one role, and are the maximal
\* runs of same-role messages among the non-system input messages, each
\* joined by newlines in order.
C32_Translate ==
    \A r \in DOMAIN rq :
      (rq[r].kind = "toAnthropicRequest" /\ rq[r].pc = "done") =>
        LET in == rq[r].body.messages
            out == rq[r].result
        IN  /\ out.system = JoinNL(ContentsOf(ContentsWhere(in, TRUE)))
            /\ \A i \in 1..Len(out.messages) : out.messages[i].role # "system"
            /\ \A i \in 1..(Len(out.messages) - 1) :
                 out.messages[i].role # out.messages[i + 1].role
            /\ out.messages = Runs(ContentsWhere(in, FALSE))


\* C33: fromAnthropicResponse maps stop_reason end_turn and stop_sequence to
\* stop, max_tokens to length and tool_use to tool_calls, and hands every
\* other stop_reason on unchanged; prompt_tokens is input_tokens,
\* completion_tokens is output_tokens and total_tokens is their sum.
C33_Response ==
    \A r \in DOMAIN rq :
      (rq[r].kind = "fromAnthropicResponse" /\ rq[r].pc = "done") =>
        LET data == rq[r].body
            out == rq[r].result
        IN  /\ out.finish_reason =
                 (IF data.stop_reason \in {"end_turn", "stop_sequence"} THEN "stop"
                  ELSE IF data.stop_reason = "max_tokens" THEN "length"
                  ELSE IF data.stop_reason = "tool_use" THEN "tool_calls"
                  ELSE data.stop_reason)
            /\ out.usage.prompt_tokens = data.usage.input_tokens
            /\ out.usage.completion_tokens = data.usage.output_tokens
            /\ out.usage.total_tokens =
                 data.usage.input_tokens + data.usage.output_tokens


(***************************************************************************)
(* Reconciliation of the journal with the balances.                        *)
(***************************************************************************)
\* what one journal entry adds to the balance of account u in currency c
EntryEffect(e, u, c) ==
    IF e.accountId # u THEN 0
    ELSE (IF e.type \in {"deposit", "transfer_in"} /\ e.currency = c
          THEN e.amount ELSE 0)
       + (IF e.type = "conversion" /\ e.metadata.toCurrency = c
          THEN e.metadata.toAmount ELSE 0)
       - (IF e.type \in {"llm_usage", "transfer_out", "conversion"} /\ e.currency = c
          THEN e.amount ELSE 0)

RECURSIVE JournalNet(_, _, _)
JournalNet(u, c, n) ==
    IF n = 0 THEN 0
    ELSE JournalNet(u, c, n - 1) + EntryEffect(journal[n].entry, u, c)

\* the sum as a JavaScript number: NaN if an amount of u's in c is NaN
JournalNetNumber(u, c) ==
    IF \E i \in 1..Len(journal) :
          /\ journal[i].entry.accountId = u
          /\ journal[i].entry.currency = c
          /\ journal[i].entry.nan.amount
    THEN NaN
    ELSE Num(JournalNet(u, c, Len(journal)))

\* C34: in every reachable state the balance of each account in each
\* currency is the sum of the account's deposit and transfer_in amounts in
\* that currency and of the toAmount of its conversions into it, minus its
\* llm_usage and transfer_out amounts and the amounts of its conversions out
\* of it, the accounts having started at zero.
\* The sum of the journal is NaN as soon as one of its terms is; a balance of
\* NaN is taken to equal such a sum.
C34_Reconciles ==
    \A u \in AccountIds, c \in Currencies :
        /\ StoredNumber(accounts[u], c) = JournalNetNumber(u, c)
        /\ HalvesOf(accounts[u], c) = 0


(***************************************************************************)
(* Concurrent transfers.                                                   *)
(***************************************************************************)
RECURSIVE TotalOf(_, _)
TotalOf(c, us) ==
    IF us = {} THEN 0
    ELSE LET u == CHOOSE x \in us : TRUE
         IN  BalanceOf(accounts[u], c) + TotalOf(c, us \ {u})

\* the amounts of the transfers answered 200 that account u sent (sent =
\* TRUE) or received
RECURSIVE Transferred(_, _, _)
Transferred(u, sent, n) ==
    IF n = 0 THEN 0
    ELSE Transferred(u, sent, n - 1)
           + (IF /\ rq[n].kind = "transfer" /\ rq[n].status = 200
                 /\ (IF sent THEN rq[n].uid ELSE rq[n].body.toAccountId) = u
              THEN rq[n].body.amount ELSE 0)

\* C35: under every interleaving of concurrent transfers, opposite
\* directions included, the sum of the balances of all accounts in each
\* currency stays what it was, whether the transfers succeed or fail, and
\* every transfer answered 200 has its debit and its credit in the
\* balances: none is lost.
C35_TransfersConserve ==
    /\ \A c \in Currencies :
         TotalOf(c, Uids) = (IF c = "USD" THEN TransferStart["a1"] + TransferStart["a2"]
                             ELSE 0)
    /\ \A u \in AccountIds :
         BalanceOf(accounts[u], "USD")
           = TransferStart[u] - Transferred(u, TRUE, Len(rq))
               + Transferred(u, FALSE, Len(rq))

(***************************************************************************)
(* Re-run transaction callbacks.                                           *)
(***************************************************************************)
TxKinds == {"chat", "deposit", "transfer", "convert"}

\* the account and currency whose balance the response of q reports
ReportedAccount(q) == IF q.kind = "deposit" THEN q.body.accountId ELSE q.uid

ReportedCurrency(q) ==
    IF q.kind = "chat" THEN "USD"
    ELSE IF q.kind = "convert" THEN q.body.from
    ELSE q.body.currency

EntriesPerCommit(q) == IF q.kind = "transfer" THEN 2 ELSE 1

\* the step in which the transaction of request r commits
Commits(r) == rq'[r].writes = rq[r].writes + 1

\* the entries of a commit carry the balances the store held just before it
\* and holds just after it
CommittedFromFinalReads(r) ==
    /\ Len(journal') = Len(journal) + EntriesPerCommit(rq[r])
    /\ \A i \in (Len(journal) + 1)..Len(journal') :
         LET e == journal'[i].entry
         IN  /\ journal'[i].req = r
             /\ StoredNumber(accounts[TemplateString(e.accountId)], e.currency)
                   = Num(e.balanceBefore)
             /\ StoredNumber(accounts'[TemplateString(e.accountId)], e.currency)
                   = EntryNumber(e, "balanceAfter")
    /\ rq'[r].out.balance =
         StoredNumber(accounts'[ReportedAccount(rq[r])], ReportedCurrency(rq[r]))

\* C36, for the operations that commit: a debit, transfer, convert or deposit
\* whose transaction callback was run again after a conflict commits one
\* balance change and one set of journal entries, whose balances are the ones
\* the store held at the commit (the reads of the final attempt), and the
\* balance in the response is the balance that commit stored.
C36_FinalAttempt ==
    [][\A r \in DOMAIN rq :
          (rq[r].kind \in TxKinds /\ rq[r].attempts > 1 /\ Commits(r)) =>
            /\ rq'[r].status = 200
            /\ rq'[r].writes = 1
            /\ CommittedFromFinalReads(r)]_vars

(***************************************************************************)
(* Whose balances a request can lower.                                     *)
(***************************************************************************)
\* the account the bearer token in the header of q was issued to
BearerOf(q) == CHOOSE u \in Uids : q.hdr = HeaderOf(u)

SpendingKinds == {"chat", "transfer", "convert"}

\* what the commit of transfer q does to its recipient: the balance of the
\* transfer's currency becomes the balance the transfer read (a stored NaN as
\* 0) plus amount, and nothing else changes
Credited(q, v) ==
    /\ q.kind = "transfer"
    /\ v = TemplateString(q.body.toAccountId)
    /\ StoredNumber(accounts'[v], q.body.currency)
          = Num(BalanceOf(accounts[v], q.body.currency) + q.body.amount)
    /\ \A d \in Currencies \ {q.body.currency} :
          StoredNumber(accounts'[v], d) = StoredNumber(accounts[v], d)

\* the step takes from the balance of u in c: the stored number changes and
\* does not become a larger number (it becomes a smaller one, or NaN)
Lowered(u, c) ==
    /\ StoredNumber(accounts'[u], c) # StoredNumber(accounts[u], c)
    /\ \/ accounts'[u].nan[c]
       \/ BalanceOf(accounts'[u], c) < BalanceOf(accounts[u], c)

\* C37: a balance is lowered only by the commit of a transfer, conversion or
\* completion whose verified bearer token belongs to that account; to any
\* other account such a request does nothing, except that a transfer credits
\* its recipient.
C37_OnlyCallerDebited ==
    [][/\ \A u \in AccountIds, c \in Currencies :
            Lowered(u, c) =>
               \E r \in DOMAIN rq :
                  /\ rq[r].kind \in SpendingKinds
                  /\ Commits(r)
                  /\ BearerOf(rq[r]) = u
       /\ \A r \in DOMAIN rq :
            (rq[r].kind \in SpendingKinds /\ Commits(r)) =>
               \A v \in AccountIds \ {BearerOf(rq[r])} :
                  accounts'[v] # accounts[v] => Credited(rq[r], v)]_vars

\* a1 paid for a completion and a2 sent a transfer to a1: each balance was
\* lowered by its owner's request only
C37_Witness ==
    \E r, w \in DOMAIN rq :
        /\ rq[r].kind = "chat" /\ rq[r].hdr = HeaderOf("a1") /\ rq[r].status = 200
        /\ ~rq[r].costMicros.nan
        /\ rq[w].kind = "transfer" /\ rq[w].hdr = HeaderOf("a2")
        /\ rq[w].status = 200
        /\ StoredNumber(accounts["a2"], "USD")
              = Num(TransferStart["a2"] - rq[w].body.amount)
        /\ StoredNumber(accounts["a1"], "USD")
              = Num(TransferStart["a1"] + rq[w].body.amount
                      - rq[r].costMicros.value)

(***************************************************************************)
(* One provider call per completion.                                       *)
(***************************************************************************)
\* request r has been debited: its debit transaction has committed, once,
\* with its write of balances.USD and its one llm_usage entry
Debited(r) == rq[r].writes = 1 /\ Cardinality(UsageEntriesOf(r)) = 1

NotDebited(r) == rq[r].writes = 0 /\ UsageEntriesOf(r) = {}

\* C38: a completion request posts to the provider at most once; once it has,
\* it never returns to the call, whether the debit transaction is re-run,
\* refused for INSUFFICIENT_FUNDS or rejected by the store; and it is answered
\* either 200 with a debit or with an error status and no debit.
C38_OneUpstreamCall ==
    /\ [](\A r \in DOMAIN rq :
            rq[r].kind = "chat" =>
              /\ rq[r].upstream <= 1
              /\ (rq[r].upstream = 1 /\ rq[r].pc = "done") =>
                    \/ rq[r].status = 200 /\ Debited(r)
                    \/ rq[r].status >= 400 /\ NotDebited(r)
              /\ rq[r].upstream = 1 => rq[r].pc \in {"tx", "commit", "done"})
    /\ [][\A r \in DOMAIN rq :
            (rq[r].kind = "chat" /\ rq[r].upstream = 1) =>
               /\ rq'[r].upstream = 1
               /\ rq'[r].pc # "upstream"
               /\ rq'[r].sentTo = rq[r].sentTo]_vars

\* three provider calls succeeded; one request was debited, one was debited
\* at a cost of NaN on the second run of its callback, the third met a store
\* error and was answered 500 undebited
C38_Witness ==
    \E r, v, w \in DOMAIN rq :
        /\ rq[r].upstreamOk /\ rq[r].status = 200 /\ ~rq[r].costMicros.nan
        /\ Debited(r)
        /\ rq[v].upstreamOk /\ rq[v].attempts = 2 /\ rq[v].status = 200
        /\ rq[v].costMicros.nan /\ Debited(v)
        /\ rq[w].upstreamOk /\ rq[w].stage = "debit-store" /\ rq[w].status = 500
        /\ rq[w].upstream = 1 /\ NotDebited(w)

(***************************************************************************)
(* What a completion request changes in the store.                         *)
(***************************************************************************)
\* the step is taken by chat request r
ChatStep(r) == rq'[r].kind = "chat" /\ rq'[r] # rq[r]

\* the commit of r's debit: balances.USD of the caller's document becomes the
\* balance the transaction read less the cost (NaN when the cost is NaN) and
\* one llm_usage entry is appended; nothing else changes
ChatEffect(r) ==
    LET u == rq[r].uid
    IN  /\ rq'[r].status = 200
        /\ \A v \in Uids \ {u} : accounts'[v] = accounts[v]
        /\ accounts'[u].exists = accounts[u].exists
        /\ \A c \in Currencies \ {"USD"} :
              /\ StoredNumber(accounts'[u], c) = StoredNumber(accounts[u], c)
              /\ accounts'[u].halves[c] = accounts[u].halves[c]
        /\ StoredNumber(accounts'[u], "USD")
             = Minus(BalanceOf(accounts[u], "USD"), rq[r].costMicros)
        /\ HalvesOf(accounts'[u], "USD")
             = (IF rq[r].costMicros.nan THEN 0
                ELSE HalvesOf(accounts[u], "USD"))
        /\ Len(journal') = Len(journal) + 1
        /\ SubSeq(journal', 1, Len(journal)) = journal
        /\ journal'[Len(journal')].req = r
        /\ journal'[Len(journal')].entry.type = "llm_usage"
        /\ journal'[Len(journal')].entry.accountId = u

ErrorStatuses == {400, 401, 402, 404, 429, 500, 503}

\* C39: a completion request changes the store in one step only, the commit
\* of its debit, which lowers balances.USD of the caller's account and
\* appends one llm_usage entry and leaves the account's other currencies,
\* every other account and the existing journal entries as they were; a
\* request answered with an error status has changed nothing.
C39_ChatFrame ==
    /\ [](\A r \in DOMAIN rq :
            (rq[r].kind = "chat" /\ rq[r].pc = "done") =>
               /\ rq[r].status \in ErrorStatuses \cup {200}
               /\ rq[r].status \in ErrorStatuses => NotDebited(r))
    /\ [][\A r \in DOMAIN rq :
            ChatStep(r) =>
               IF Commits(r) THEN ChatEffect(r)
               ELSE accounts' = accounts /\ journal' = journal]_vars

\* a1 converted USD into ETH and then paid for a completion: the ETH balance
\* and the conversion entry are as the conversion left them
C39_Witness ==
    \E r, w \in DOMAIN rq :
        /\ rq[w].kind = "convert" /\ rq[w].status = 200
        /\ rq[r].kind = "chat" /\ rq[r].status = 200 /\ rq[r].uid = "a1"
        /\ BalanceOf(accounts["a1"], "ETH") = rq[w].converted
        /\ rq[w].converted > 0
        /\ journal[Len(journal)].entry.type = "llm_usage"
        /\ journal[Len(journal) - 1].entry.type = "conversion"
        /\ ~rq[r].costMicros.nan /\ rq[r].costMicros.value > 0
        /\ StoredNumber(accounts["a1"], "USD")
              = Num(2000 - 1000 - rq[r].costMicros.value)
        /\ BalanceOf(accounts["a2"], "USD") = 1000

(***************************************************************************)
(* Conversion there and back.                                              *)
(***************************************************************************)
\* C40: at fixed positive prices, converting an amount x > 0 from a to b and
\* the result back from b to a never returns more than x.
C40_RoundTrip ==
    \A r \in DOMAIN rq :
        (rq[r].kind = "roundTrip" /\ rq[r].pc = "done") =>
            ~BinLess(rq[r].body.x, rq[r].result.back)

====
